---- MODULE Spec2Model ----
(***************************************************************************)
(* Model of the React front end of the AI data agent:                      *)
(*   - ChatPage (frontend/src/pages/ChatPage.jsx): conversation state,     *)
(*     thread sidebar, handleSubmit and its newline-delimited stream       *)
(*     reader;                                                             *)
(*   - AgentChat (frontend/src/components/AIReportModal.jsx): its           *)
(*     handleSubmit, stream reader and processStreamData;                  *)
(*   - AuthProvider / ProtectedRoute / AppRoutes (context/AuthContext,     *)
(*     App with routes);                                                   *)
(*   - MachineCard (components/MachineCard.jsx): polling and status;      *)
(*   - AdminPage (pages/AdminPage.jsx): handleResetPassword;              *)
(*   - ForecastChart (components/AnalyticsCharts.jsx): segment styles.    *)
(* Text is a sequence of one-character strings; "\n" is the line feed.     *)
(* A JSON object {"type":T,"content":c,"chart_data":d,"chart_type":k} is    *)
(* written as the characters <<T, c, d, k, "}">> (c, d and k optional), so *)
(* that no proper prefix of an object is itself an object, as in JSON.     *)
(***************************************************************************)
EXTENDS Integers, Sequences, FiniteSets, TLC

\* ---------------------------------------------------------------- bounds
MaxEvents == 3      \* lines of one /agent/stream response
MaxSubmits == 2     \* questions submitted in one run
MaxClicks == 2      \* sidebar, reset and provider clicks in one run
MaxWork == 4        \* questions, clicks, answered thread requests and response lines in one run
MaxThreads == 2     \* thread ids the server hands out
MaxLogins == 2      \* login attempts in one run of the auth model
MaxPairSubmits == 1 \* questions submitted to the two pages that are compared
MaxAgentEvents == 2 \* lines of the /agent/stream responses AgentChat reads in one run
MaxAgentSubmits == 2 \* questions submitted to AgentChat in one run
MaxPolls == 3       \* polls of one MachineCard in one run
MaxMetrics == 2     \* records in one /metrics response
MaxResets == 2      \* calls of AdminPage.handleResetPassword in one run
MaxRecords == 6     \* records of the data of one ForecastChart

\* ---------------------------------------------------------------- values
Undef == "undefined"
Null == "null"
NL == "\n"

Greeting == <<"Hello! I am your AI Data Assistant. I can help you analyze machine performance, query databases, and troubleshoot anomalies.">>
ConnectionFailed == <<"Sorry, connection failed. Please try again.">>
ErrorPrefix == <<"Error: ">>
Starting == <<"Starting...">>
NoStatus == <<>>

GreetingMsg == [role |-> "agent", content |-> Greeting, streaming |-> Undef, chart_data |-> Undef]

\* ---------------------------------------------------------------- text helpers
RECURSIVE TrimStart(_)
TrimStart(s) == IF s # <<>> /\ Head(s) \in {" ", NL} THEN TrimStart(Tail(s)) ELSE s

RECURSIVE TrimEnd(_)
TrimEnd(s) == IF s # <<>> /\ s[Len(s)] \in {" ", NL} THEN TrimEnd(SubSeq(s, 1, Len(s) - 1)) ELSE s

\* String.prototype.trim
Trim(s) == TrimEnd(TrimStart(s))

\* String.prototype.split('\n'): always at least one piece
RECURSIVE SplitNL(_)
SplitNL(s) ==
    IF \A i \in 1..Len(s) : s[i] # NL
    THEN <<s>>
    ELSE LET k == CHOOSE i \in 1..Len(s) : s[i] = NL /\ \A j \in 1..(i - 1) : s[j] # NL
         IN  <<SubSeq(s, 1, k - 1)>> \o SplitNL(SubSeq(s, k + 1, Len(s)))

\* lines.pop(): the last piece is removed and becomes the buffer
AllButLast(q) == SubSeq(q, 1, Len(q) - 1)
Last(q) == q[Len(q)]

TypeChars == {"S", "L", "T", "A", "E", "X", "U"}
ContentChars == {"a", "b"}

TypeOf(c) ==
    CASE c = "S" -> "status"
      [] c = "L" -> "log"
      [] c = "T" -> "token"
      [] c = "A" -> "answer"
      [] c = "E" -> "answer_end"
      [] c = "X" -> "error"
      [] OTHER -> "unknown"

\* chart_data: an array of records, an empty array, null
ChartChars == {"#", "0", "n"}
\* chart_type: 'scatter_anomaly', 'forecast', another string
ChartTypeChars == {"s", "f", "o"}

OneOrNone(S) == {<<>>} \cup {<<x>> : x \in S}

\* the fields of an object after its type: content, chart_data, chart_type, each optional
JSONFields == {c \o d \o k : c \in OneOrNone(ContentChars), d \in OneOrNone(ChartChars),
                               k \in OneOrNone(ChartTypeChars)}

\* JSON.parse succeeds on this text
IsJSON(l) ==
    LET t == Trim(l) IN
    /\ Len(t) >= 2
    /\ t[1] \in TypeChars
    /\ t[Len(t)] = "}"
    /\ SubSeq(t, 2, Len(t) - 1) \in JSONFields

\* what a missing content reads as once it is put into a string
UndefText == <<"undefined">>

\* JSON.parse: the object of a line (only used where IsJSON holds)
ParseJSON(l) ==
    LET t == Trim(l)
        has(x) == \E i \in 2..(Len(t) - 1) : t[i] = x
    IN
    [type |-> TypeOf(t[1]),
     content |-> IF Len(t) >= 3 /\ t[2] \in ContentChars THEN <<t[2]>> ELSE UndefText,
     chart_data |-> IF has("#") THEN "chart" ELSE IF has("0") THEN "[]"
                    ELSE IF has("n") THEN Null ELSE Undef,
     chart_type |-> IF has("s") THEN "scatter_anomaly" ELSE IF has("f") THEN "forecast"
                    ELSE IF has("o") THEN "bar" ELSE Undef]

\* the server's serialisation of one object (json.dumps)
Stringify(ev) ==
    LET c == CASE ev.type = "status" -> "S"
               [] ev.type = "log" -> "L"
               [] ev.type = "token" -> "T"
               [] ev.type = "answer" -> "A"
               [] ev.type = "answer_end" -> "E"
               [] ev.type = "error" -> "X"
               [] OTHER -> "U"
    IN  <<c>> \o (IF ev.content = UndefText THEN <<>> ELSE ev.content)
            \o (CASE ev.chart_data = "chart" -> <<"#">>
                  [] ev.chart_data = "[]" -> <<"0">>
                  [] ev.chart_data = Null -> <<"n">>
                  [] OTHER -> <<>>)
            \o (CASE ev.chart_type = "scatter_anomaly" -> <<"s">>
                  [] ev.chart_type = "forecast" -> <<"f">>
                  [] ev.chart_type = "bar" -> <<"o">>
                  [] OTHER -> <<>>)
            \o <<"}">>

\* ---------------------------------------------------------------- ChatPage: event dispatch
Msg(role, content, streaming, chart) ==
    [role |-> role, content |-> content, streaming |-> streaming, chart_data |-> chart]

\* OnToken with the slice one too short: the message before the streaming one is lost
OnTokenDropsOne(prev, data) ==
    IF Len(prev) > 0 /\ Last(prev).role = "agent" /\ Last(prev).streaming = "true"
    THEN SubSeq(prev, 1, Len(prev) - 2) \o <<[Last(prev) EXCEPT !.content = Last(prev).content \o data.content]>>
    ELSE Append(prev, Msg("agent", data.content, "true", Undef))

\* type 'token': append to the streaming message or create one
OnToken(prev, data) ==
    IF Len(prev) > 0 /\ Last(prev).role = "agent" /\ Last(prev).streaming = "true"
    THEN AllButLast(prev) \o <<[Last(prev) EXCEPT !.content = Last(prev).content \o data.content]>>
    ELSE Append(prev, Msg("agent", data.content, "true", Undef))

\* type 'answer_end': finalize the streaming message
OnAnswerEnd(prev) ==
    IF Len(prev) > 0 /\ Last(prev).streaming = "true"
    THEN AllButLast(prev) \o <<[Last(prev) EXCEPT !.streaming = "false"]>>
    ELSE prev

\* type 'answer'
OnAnswer(prev, data) == Append(prev, Msg("agent", data.content, Undef, data.chart_data))

\* OnError putting the error in the place of a partially streamed message
OnErrorReplacesPartial(prev, data) ==
    IF Len(prev) > 0 /\ Last(prev).streaming = "true"
    THEN AllButLast(prev) \o <<Msg("agent", ErrorPrefix \o data.content, Undef, Undef)>>
    ELSE Append(prev, Msg("agent", ErrorPrefix \o data.content, Undef, Undef))

\* type 'error'
OnError(prev, data) == Append(prev, Msg("agent", ErrorPrefix \o data.content, Undef, Undef))

\* the if-chain of the reader loop applied to one parsed object: new messages
DispatchMessages(prev, data) ==
    CASE data.type = "token" -> OnToken(prev, data)
      [] data.type = "answer_end" -> OnAnswerEnd(prev)
      [] data.type = "answer" -> OnAnswer(prev, data)
      [] data.type = "error" -> OnError(prev, data)
      [] OTHER -> prev

\* DispatchStatus that shows a log line as the status
DispatchStatusShowsLog(st, data) ==
    CASE data.type \in {"status", "log"} -> data.content
      [] data.type \in {"token", "answer_end", "answer", "error"} -> NoStatus
      [] OTHER -> st

\* the if-chain of the reader loop applied to one parsed object: new status
DispatchStatus(st, data) ==
    CASE data.type = "status" -> data.content
      [] data.type \in {"token", "answer_end", "answer", "error"} -> NoStatus
      [] OTHER -> st

\* for (const line of lines): blank lines are skipped, unparsable lines are
\* caught and logged, every other line is dispatched.  Result: messages,
\* status and the objects dispatched, in order.
RECURSIVE ProcessLines(_, _, _, _)
ProcessLines(lines, msgs, st, done) ==
    IF lines = <<>> THEN [messages |-> msgs, status |-> st, dispatched |-> done]
    ELSE LET line == Head(lines) IN
         IF Trim(line) = <<>> \/ ~IsJSON(line)
         THEN ProcessLines(Tail(lines), msgs, st, done)
         ELSE LET data == ParseJSON(line) IN
              ProcessLines(Tail(lines), DispatchMessages(msgs, data),
                           DispatchStatus(st, data), Append(done, data))

\* ReadStep that splits the chunk alone and forgets the buffered partial line
ReadStepNoBuffer(buffer, chunk, msgs, st) ==
    LET lines == SplitNL(chunk)
        r == ProcessLines(AllButLast(lines), msgs, st, <<>>)
    IN  [buffer |-> Last(lines), messages |-> r.messages, status |-> r.status,
         dispatched |-> r.dispatched]

\* one iteration of the reader loop of ChatPage.handleSubmit on one chunk
ReadStep(buffer, chunk, msgs, st) ==
    LET lines == SplitNL(buffer \o chunk)
        r == ProcessLines(AllButLast(lines), msgs, st, <<>>)
    IN  [buffer |-> Last(lines), messages |-> r.messages, status |-> r.status,
         dispatched |-> r.dispatched]

\* ---------------------------------------------------------------- ChatPage: state
VARIABLES
    messages,        \* useState: the displayed conversation
    input,           \* useState: the text of the input field
    loading,         \* useState
    status,          \* useState: the status line ('' when none)
    llmProvider,     \* useState
    threads,         \* useState: the sidebar list of {thread_id, title}
    activeThreadId,  \* useState
    subs,            \* the invocations of handleSubmit that are suspended at an await
    reqs,            \* the thread requests (axios) that are not answered yet
    srvThreads,      \* the server's thread list, newest first
    srvIssued,       \* how many thread ids the server has handed out
    nSubmits,        \* questions submitted so far
    nClicks,         \* sidebar, reset and provider clicks so far
    nWork,           \* questions, clicks, answered thread requests and response lines so far
    replaced,        \* the displayed messages were replaced (thread loaded or created,
                     \* chat reset) while the last question was being answered
    last             \* the step taken last

\* ---------------------------------------------------------------- AuthProvider and routes: state
VARIABLES
    user,            \* useState of AuthProvider
    token,           \* useState of AuthProvider
    authLoading,     \* useState 'loading' of AuthProvider
    storage,         \* localStorage['auth_token']
    authReqs,        \* /auth/me and /auth/login requests that are not answered yet
    effectDue,       \* useEffect([token]) is scheduled and has not run
    route,           \* the location of the router
    nLogins          \* login attempts so far

\* ---------------------------------------------------------------- other components: state
VARIABLES
    pair,            \* two ChatPage instances that are given the same events
    agentChat,       \* the state of AgentChat (the chat of the dashboard)
    machineCard,     \* the state of one MachineCard and its polls in flight
    adminPage,       \* the state of AdminPage and its password requests in flight
    forecastChart    \* the data given to one ForecastChart and what it has drawn

chatVars == <<messages, input, loading, status, llmProvider, threads, activeThreadId,
              subs, reqs, srvThreads, srvIssued, nSubmits, nClicks, nWork>>
authVars == <<user, token, authLoading, storage, authReqs, effectDue, route, nLogins>>
widgetVars == <<machineCard, adminPage, forecastChart>>
otherVars == <<pair, agentChat, widgetVars>>
baseVars == <<chatVars, authVars, replaced, last>>
vars == <<baseVars, otherVars>>

NoUser == [id |-> Null, role |-> Null]
Users == {[id |-> "u1", role |-> "user"], [id |-> "u2", role |-> "admin"]}
Tokens == {"tok1", "tok2"}
Providers == {"local", "openrouter"}
Inputs == {<<>>, <<" ">>, <<"q">>}

ThreadIds == {"t" \o ToString(i) : i \in 1..MaxThreads}
Thread(id) == [thread_id |-> id, title |-> "New Chat"]
IdsOf(list) == {list[i].thread_id : i \in 1..Len(list)}

\* PutFirst with the new thread put last
PutLast(newThread, prev) == Append(prev, newThread)

\* setThreads(prev => [newThread, ...prev])
PutFirst(newThread, prev) == <<newThread>> \o prev

\* Array.prototype.filter(t => t.thread_id !== threadId)
RECURSIVE FilterOut(_, _)
FilterOut(list, id) ==
    IF list = <<>> THEN <<>>
    ELSE IF Head(list).thread_id = id THEN FilterOut(Tail(list), id)
    ELSE <<Head(list)>> \o FilterOut(Tail(list), id)

\* ---------------------------------------------------------------- the server's responses
Event(type, content, chart) ==
    [type |-> type, content |-> content, chart_data |-> chart, chart_type |-> Undef]

ServerEvents ==
    {Event("status", <<"a">>, Undef), Event("log", <<"a">>, Undef),
     Event("token", <<"a">>, Undef), Event("token", <<"b">>, Undef),
     Event("answer", <<"a">>, "chart"),
     Event("answer_end", UndefText, Undef), Event("error", <<"a">>, Undef),
     Event("unknown", <<"a">>, Undef)}

\* the lines a response can consist of: objects, a blank line, a line that is no JSON
ServerLines == {Stringify(ev) : ev \in ServerEvents} \cup {<<" ">>, <<"?">>}

SeqsUpTo(S, n) == UNION {[1..k -> S] : k \in 0..n}

\* the line sequences a response can consist of
ResponseLines == SeqsUpTo(ServerLines, MaxEvents)

\* the response text: the lines separated by line feeds; the last line is
\* followed by a line feed or not
RECURSIVE Join(_)
Join(lines) ==
    IF lines = <<>> THEN <<>>
    ELSE IF Len(lines) = 1 THEN Head(lines)
    ELSE Head(lines) \o <<NL>> \o Join(Tail(lines))

ResponseText(lines, lastNL) == Join(lines) \o (IF lastNL /\ lines # <<>> THEN <<NL>> ELSE <<>>)

\* the objects of a response text, in order: what the server sent
RECURSIVE ObjectsOf(_)
ObjectsOf(lines) ==
    IF lines = <<>> THEN <<>>
    ELSE (IF Trim(Head(lines)) # <<>> /\ IsJSON(Head(lines)) THEN <<ParseJSON(Head(lines))>> ELSE <<>>)
         \o ObjectsOf(Tail(lines))

\* ---------------------------------------------------------------- ChatPage: requests
\* messages.map(msg => ({role, content}))
RoleContent(msgs) == [i \in 1..Len(msgs) |-> [role |-> msgs[i].role, content |-> msgs[i].content]]

\* user?.id || 'anonymous'
UserIdOf(u) == IF u.id = Null THEN "anonymous" ELSE u.id

NoBody == [question |-> <<>>, chat_history |-> <<>>, llm_provider |-> Null,
           thread_id |-> Null, user_id |-> Null]

\* StreamBody that reads the messages now displayed, not those of the closure
StreamBodyLive(h, currentThreadId) ==
    [question |-> h.userMsg,
     chat_history |-> RoleContent(messages),
     llm_provider |-> h.capProvider,
     thread_id |-> currentThreadId,
     user_id |-> UserIdOf(h.capUser)]

\* JSON body of POST /agent/stream, built from what handleSubmit has in scope
StreamBody(h, currentThreadId) ==
    [question |-> h.userMsg,
     chat_history |-> RoleContent(h.capMessages),
     llm_provider |-> h.capProvider,
     thread_id |-> currentThreadId,
     user_id |-> UserIdOf(h.capUser)]

\* a thread request in flight: what was asked, what the handler captured when
\* it was called, and what the server did when the request reached it (ok: the
\* server carried it out; data: its list of threads at that moment).  Whether
\* the response arrives is decided when the handler resumes.
Req(op, tid, ok, data, capActive, capThreads) ==
    [op |-> op, tid |-> tid, ok |-> ok, data |-> data,
     capActive |-> capActive, capThreads |-> capThreads]

ListReq(op) == Req(op, Null, TRUE, srvThreads, Null, <<>>)
LoadReq(tid) == Req("load", tid, TRUE, <<>>, Null, <<>>)

NextId == "t" \o ToString(srvIssued + 1)
CanIssue == srvIssued < MaxThreads

\* what GET /threads/{id} can return: the message sequence with metadata
ThreadItems ==
    {[role |-> "user", content |-> <<"q">>, metadata |-> <<>>],
     [role |-> "agent", content |-> <<"a">>, metadata |-> <<[chart_data |-> "chart"]>>],
     [role |-> "agent", content |-> <<"b">>, metadata |-> <<[chart_data |-> Undef]>>]}
ThreadPayloads ==
    {<<>>} \cup {<<x>> : x \in {i \in ThreadItems : i.role = "user"}}
    \cup {<<x, y>> : x \in {i \in ThreadItems : i.role = "user"}, y \in {i \in ThreadItems : i.role = "agent"}}

\* ThreadMsgs that takes chart_data from the item, where it is not
ThreadMsgsNoMetadata(items) ==
    [i \in 1..Len(items) |-> Msg(items[i].role, items[i].content, Undef, Undef)]

\* res.data.map(item => ({role, content, chart_data: item.metadata?.chart_data}))
ThreadMsgs(items) ==
    [i \in 1..Len(items) |->
        Msg(items[i].role, items[i].content, Undef,
            IF items[i].metadata = <<>> THEN Undef ELSE items[i].metadata[1].chart_data)]

Did(name) == [act |-> name]

\* the run has room for one more click
CanClick == nClicks < MaxClicks /\ nWork < MaxWork

\* ---------------------------------------------------------------- ChatPage: handlers
\* a form whose controls are never disabled
FormNeverDisabled == FALSE

\* disabled={loading} of the input, and the loading part of the send button's
FormDisabled == loading

\* setInput from the input field
SetInput(v) ==
    /\ ~FormDisabled
    /\ nSubmits < MaxSubmits /\ nWork < MaxWork
    /\ input # v
    /\ input' = v
    /\ UNCHANGED replaced
    /\ last' = Did("SetInput")
    /\ UNCHANGED <<messages, loading, status, llmProvider, threads, activeThreadId,
                   subs, reqs, srvThreads, srvIssued, nSubmits, nClicks, nWork, authVars, otherVars>>

\* the provider select of the header
SetLlmProvider(p) ==
    /\ CanClick
    /\ llmProvider # p
    /\ llmProvider' = p
    /\ nClicks' = nClicks + 1
    /\ nWork' = nWork + 1
    /\ UNCHANGED replaced
    /\ last' = Did("SetLlmProvider")
    /\ UNCHANGED <<messages, input, loading, status, threads, activeThreadId,
                   subs, reqs, srvThreads, srvIssued, nSubmits, authVars, otherVars>>

\* handleResetChat
handleResetChat ==
    /\ CanClick
    /\ messages' = <<GreetingMsg>>
    /\ status' = NoStatus
    /\ nClicks' = nClicks + 1
    /\ nWork' = nWork + 1
    /\ replaced' = (subs # {})
    /\ last' = Did("handleResetChat")
    /\ UNCHANGED <<input, loading, llmProvider, threads, activeThreadId,
                   subs, reqs, srvThreads, srvIssued, nSubmits, authVars, otherVars>>

\* the form can be submitted while the input and the send button are enabled
CanSubmit == ~FormDisabled

\* handleSubmit up to its first await: the early return, the user message,
\* and either POST /threads (no active thread) or POST /agent/stream
handleSubmit ==
    /\ CanSubmit
    /\ nSubmits < MaxSubmits /\ nWork < MaxWork
    /\ IF Trim(input) = <<>>
       THEN /\ last' = Did("handleSubmitBlank")
            /\ UNCHANGED <<chatVars, authVars, otherVars, replaced>>
       ELSE LET h0 == [pc |-> "create", userMsg |-> input, capMessages |-> messages,
                       capProvider |-> llmProvider, capUser |-> user,
                       capActive |-> activeThreadId, newId |-> Null, created |-> FALSE,
                       typed |-> input, shown |-> messages, shownProvider |-> llmProvider,
                       shownActive |-> activeThreadId,
                       body |-> NoBody, lines |-> <<>>, lastNL |-> TRUE,
                       wire |-> <<>>, buffer |-> <<>>, dispatched |-> <<>>]
            IN
            /\ messages' = Append(messages, Msg("user", input, Undef, Undef))
            /\ input' = <<>>
            /\ loading' = TRUE
            /\ status' = Starting
            /\ nSubmits' = nSubmits + 1
            /\ nWork' = nWork + 1
            /\ replaced' = FALSE
            /\ IF activeThreadId = Null
               THEN /\ subs' = subs \cup {[h0 EXCEPT !.newId = IF CanIssue THEN NextId ELSE Null]}
                    /\ srvThreads' = IF CanIssue THEN <<Thread(NextId)>> \o srvThreads ELSE srvThreads
                    /\ srvIssued' = IF CanIssue THEN srvIssued + 1 ELSE srvIssued
                    /\ last' = Did("handleSubmit")
               ELSE /\ subs' = subs \cup {[h0 EXCEPT !.pc = "fetch", !.body = StreamBody(h0, activeThreadId)]}
                    /\ last' = Did("handleSubmit")
                    /\ UNCHANGED <<srvThreads, srvIssued>>
            /\ UNCHANGED <<llmProvider, threads, activeThreadId, reqs, nClicks, authVars, otherVars>>

\* handleSubmit resumes after POST /threads: the new thread is put first and
\* made active (or the error is logged), then POST /agent/stream is sent
AutoCreateDone(h, ok) ==
    /\ h.pc = "create"
    /\ ok => h.newId # Null
    /\ LET cur == IF ok THEN h.newId ELSE h.capActive
       IN  subs' = (subs \ {h}) \cup {[h EXCEPT !.pc = "fetch", !.created = ok,
                                                !.body = StreamBody(h, cur)]}
    /\ UNCHANGED replaced
    /\ last' = Did(IF ok THEN "AutoCreateOk" ELSE "AutoCreateFail")
    /\ IF ok
       THEN /\ threads' = PutFirst(Thread(h.newId), threads)
            /\ activeThreadId' = h.newId
       ELSE UNCHANGED <<threads, activeThreadId>>
    /\ UNCHANGED <<messages, input, loading, status, llmProvider, reqs, srvThreads, srvIssued,
                   nSubmits, nClicks, nWork, authVars, otherVars>>

\* finally { setLoading(false); setStatus(''); refreshThreads() }
Finally(h) ==
    /\ loading' = FALSE
    /\ status' = NoStatus
    /\ subs' = subs \ {h}
    /\ reqs' = reqs \cup {ListReq("refresh")}

\* fetch resolves with response.ok: the reader loop starts on the response text
FetchOk(h, lines, lastNL) ==
    /\ h.pc = "fetch"
    /\ subs' = (subs \ {h}) \cup {[h EXCEPT !.pc = "read", !.lines = lines, !.lastNL = lastNL,
                                              !.wire = ResponseText(lines, lastNL)]}
    /\ nWork + Len(lines) <= MaxWork
    /\ nWork' = nWork + Len(lines)
    /\ UNCHANGED replaced
    /\ last' = Did("FetchOk")
    /\ UNCHANGED <<messages, input, loading, status, llmProvider, threads, activeThreadId,
                   reqs, srvThreads, srvIssued, nSubmits, nClicks, authVars, otherVars>>

\* FetchFail without the message of the catch block
FetchFailSilent(h) ==
    /\ h.pc = "fetch"
    /\ Finally(h)
    /\ UNCHANGED replaced
    /\ last' = Did("FetchFail")
    /\ UNCHANGED <<messages, input, llmProvider, threads, activeThreadId, srvThreads, srvIssued,
                   nSubmits, nClicks, nWork, authVars, otherVars>>

\* fetch rejects, or !response.ok: catch, then finally
FetchFail(h) ==
    /\ h.pc = "fetch"
    /\ messages' = Append(messages, Msg("agent", ConnectionFailed, Undef, Undef))
    /\ Finally(h)
    /\ UNCHANGED replaced
    /\ last' = Did("FetchFail")
    /\ UNCHANGED <<input, llmProvider, threads, activeThreadId, srvThreads, srvIssued,
                   nSubmits, nClicks, nWork, authVars, otherVars>>

\* reader.read() resolves with a chunk: the first n characters that are on the wire
ReadChunk(h, n) ==
    /\ h.pc = "read"
    /\ n \in 1..Len(h.wire)
    /\ LET r == ReadStep(h.buffer, SubSeq(h.wire, 1, n), messages, status)
       IN  /\ messages' = r.messages
           /\ status' = r.status
           /\ subs' = (subs \ {h}) \cup {[h EXCEPT !.wire = SubSeq(h.wire, n + 1, Len(h.wire)),
                                                    !.buffer = r.buffer,
                                                    !.dispatched = h.dispatched \o r.dispatched]}
           /\ UNCHANGED replaced
    /\ last' = Did("ReadChunk")
    /\ UNCHANGED <<input, loading, llmProvider, threads, activeThreadId, reqs, srvThreads,
                   srvIssued, nSubmits, nClicks, nWork, authVars, otherVars>>

\* reader.read() resolves with done: break, then finally
ReadDone(h) ==
    /\ h.pc = "read"
    /\ h.wire = <<>>
    /\ Finally(h)
    /\ UNCHANGED replaced
    /\ last' = Did("ReadDone")
    /\ UNCHANGED <<messages, input, llmProvider, threads, activeThreadId, srvThreads, srvIssued,
                   nSubmits, nClicks, nWork, authVars, otherVars>>

\* reader.read() rejects (the connection drops): catch, then finally
ReadThrow(h) ==
    /\ h.pc = "read"
    /\ messages' = Append(messages, Msg("agent", ConnectionFailed, Undef, Undef))
    /\ Finally(h)
    /\ UNCHANGED replaced
    /\ last' = Did("ReadThrow")
    /\ UNCHANGED <<input, llmProvider, threads, activeThreadId, srvThreads, srvIssued,
                   nSubmits, nClicks, nWork, authVars, otherVars>>

\* ---------------------------------------------------------------- ChatPage: threads
\* loadThread(threadId) up to its await: GET /threads/{id}
CallLoadThread(tid) == reqs' = reqs \cup {LoadReq(tid)}

\* a click on a thread of the sidebar
ClickThread(tid) ==
    /\ CanClick
    /\ tid \in IdsOf(threads)
    /\ CallLoadThread(tid)
    /\ nClicks' = nClicks + 1
    /\ nWork' = nWork + 1
    /\ UNCHANGED replaced
    /\ last' = Did("ClickThread")
    /\ UNCHANGED <<messages, input, loading, status, llmProvider, threads, activeThreadId,
                   subs, srvThreads, srvIssued, nSubmits, authVars, otherVars>>

\* loadThread resumes with the response
LoadThreadOk(r, items) ==
    /\ nWork < MaxWork
    /\ nWork' = nWork + 1
    /\ r \in reqs /\ r.op = "load"
    /\ items \in ThreadPayloads
    /\ activeThreadId' = r.tid
    /\ messages' = IF Len(items) > 0 THEN ThreadMsgs(items) ELSE <<GreetingMsg>>
    /\ reqs' = reqs \ {r}
    /\ replaced' = (subs # {})
    /\ last' = [act |-> "LoadThreadOk", n |-> Len(items), items |-> items]
    /\ UNCHANGED <<input, loading, status, llmProvider, threads, subs, srvThreads, srvIssued,
                   nSubmits, nClicks, authVars, otherVars>>

\* loadThread: the request fails, the error is logged
LoadThreadFail(r) ==
    /\ nWork < MaxWork
    /\ nWork' = nWork + 1
    /\ r \in reqs /\ r.op = "load"
    /\ reqs' = reqs \ {r}
    /\ UNCHANGED replaced
    /\ last' = Did("LoadThreadFail")
    /\ UNCHANGED <<messages, input, loading, status, llmProvider, threads, activeThreadId,
                   subs, srvThreads, srvIssued, nSubmits, nClicks, authVars, otherVars>>

\* createNewThread up to its await: POST /threads
createNewThread ==
    /\ CanClick
    /\ reqs' = reqs \cup {Req("create", IF CanIssue THEN NextId ELSE Null, CanIssue, <<>>, Null, <<>>)}
    /\ srvThreads' = IF CanIssue THEN <<Thread(NextId)>> \o srvThreads ELSE srvThreads
    /\ srvIssued' = IF CanIssue THEN srvIssued + 1 ELSE srvIssued
    /\ nClicks' = nClicks + 1
    /\ nWork' = nWork + 1
    /\ UNCHANGED replaced
    /\ last' = Did("createNewThread")
    /\ UNCHANGED <<messages, input, loading, status, llmProvider, threads, activeThreadId,
                   subs, nSubmits, authVars, otherVars>>

\* createNewThread resumes with {thread_id, title}
CreateThreadOk(r) ==
    /\ nWork < MaxWork
    /\ nWork' = nWork + 1
    /\ r \in reqs /\ r.op = "create" /\ r.ok
    /\ threads' = PutFirst(Thread(r.tid), threads)
    /\ activeThreadId' = r.tid
    /\ messages' = <<GreetingMsg>>
    /\ reqs' = reqs \ {r}
    /\ replaced' = (subs # {})
    /\ last' = Did("CreateThreadOk")
    /\ UNCHANGED <<input, loading, status, llmProvider, subs, srvThreads, srvIssued,
                   nSubmits, nClicks, authVars, otherVars>>

\* createNewThread: the request fails, the error is logged
CreateThreadFail(r) ==
    /\ nWork < MaxWork
    /\ nWork' = nWork + 1
    /\ r \in reqs /\ r.op = "create"
    /\ reqs' = reqs \ {r}
    /\ UNCHANGED replaced
    /\ last' = Did("CreateThreadFail")
    /\ UNCHANGED <<messages, input, loading, status, llmProvider, threads, activeThreadId,
                   subs, srvThreads, srvIssued, nSubmits, nClicks, authVars, otherVars>>

\* refreshThreads / fetchThreads resume with the list
ThreadListOk(r) ==
    /\ nWork < MaxWork
    /\ nWork' = nWork + 1
    /\ r \in reqs /\ r.op \in {"refresh", "fetchThreads"} /\ r.ok
    /\ threads' = r.data
    /\ IF r.op = "fetchThreads" /\ Len(r.data) > 0
       THEN reqs' = (reqs \ {r}) \cup {LoadReq(r.data[1].thread_id)}
       ELSE reqs' = reqs \ {r}
    /\ UNCHANGED replaced
    /\ last' = Did("ThreadListOk")
    /\ UNCHANGED <<messages, input, loading, status, llmProvider, activeThreadId,
                   subs, srvThreads, srvIssued, nSubmits, nClicks, authVars, otherVars>>

\* refreshThreads / fetchThreads: the request fails, the error is logged
ThreadListFail(r) ==
    /\ nWork < MaxWork
    /\ nWork' = nWork + 1
    /\ r \in reqs /\ r.op \in {"refresh", "fetchThreads"}
    /\ reqs' = reqs \ {r}
    /\ UNCHANGED replaced
    /\ last' = Did("ThreadListFail")
    /\ UNCHANGED <<messages, input, loading, status, llmProvider, threads, activeThreadId,
                   subs, srvThreads, srvIssued, nSubmits, nClicks, authVars, otherVars>>

\* deleteThread(threadId) up to its await: DELETE /threads/{id}
deleteThread(tid) ==
    /\ CanClick
    /\ tid \in IdsOf(threads)
    /\ \E ok \in BOOLEAN :
         /\ reqs' = reqs \cup {Req("delete", tid, ok, <<>>, activeThreadId, threads)}
         /\ srvThreads' = IF ok THEN FilterOut(srvThreads, tid) ELSE srvThreads
    /\ nClicks' = nClicks + 1
    /\ nWork' = nWork + 1
    /\ UNCHANGED replaced
    /\ last' = Did("deleteThread")
    /\ UNCHANGED <<messages, input, loading, status, llmProvider, threads, activeThreadId,
                   subs, srvIssued, nSubmits, authVars, otherVars>>

\* deleteThread resumes: the thread leaves the list; if it was the active one
\* (as captured by the handler) another thread is loaded or the chat is reset
DeleteThreadOk(r) ==
    /\ nWork < MaxWork
    /\ nWork' = nWork + 1
    /\ r \in reqs /\ r.op = "delete" /\ r.ok
    /\ threads' = FilterOut(threads, r.tid)
    /\ LET remaining == FilterOut(r.capThreads, r.tid) IN
       IF r.capActive = r.tid
       THEN IF Len(remaining) > 0
            THEN /\ reqs' = (reqs \ {r}) \cup {LoadReq(remaining[1].thread_id)}
                 /\ UNCHANGED <<activeThreadId, messages, status, replaced>>
            ELSE /\ activeThreadId' = Null
                 /\ messages' = <<GreetingMsg>>
                 /\ status' = NoStatus
                 /\ replaced' = (subs # {})
                 /\ reqs' = reqs \ {r}
       ELSE /\ reqs' = reqs \ {r}
            /\ UNCHANGED <<activeThreadId, messages, status, replaced>>
    /\ last' = Did("DeleteThreadOk")
    /\ UNCHANGED <<input, loading, llmProvider, subs, srvThreads, srvIssued,
                   nSubmits, nClicks, authVars, otherVars>>

\* deleteThread: the request fails, the error is logged
DeleteThreadFail(r) ==
    /\ nWork < MaxWork
    /\ nWork' = nWork + 1
    /\ r \in reqs /\ r.op = "delete" /\ ~r.ok
    /\ reqs' = reqs \ {r}
    /\ UNCHANGED replaced
    /\ last' = Did("DeleteThreadFail")
    /\ UNCHANGED <<messages, input, loading, status, llmProvider, threads, activeThreadId,
                   subs, srvThreads, srvIssued, nSubmits, nClicks, authVars, otherVars>>

\* ---------------------------------------------------------------- ChatPage as a function of its state
\* One ChatPage with a thread active, as a record: the state handleSubmit
\* reads and writes, the body of the request it sent, and its reader's buffer.
PageFresh ==
    [llmProvider |-> "local", messages |-> <<GreetingMsg>>, input |-> <<>>,
     loading |-> FALSE, status |-> NoStatus, activeThreadId |-> "t1",
     pc |-> "idle", body |-> NoBody, buffer |-> <<>>]

\* the provider select
PageSelect(st, p) == [st EXCEPT !.llmProvider = p]

\* the input field
PageSetInput(st, v) == IF st.loading THEN st ELSE [st EXCEPT !.input = v]

\* handleSubmit up to the fetch
PageSubmit(st) ==
    IF st.loading \/ Trim(st.input) = <<>> THEN st
    ELSE [st EXCEPT !.messages = Append(st.messages, Msg("user", st.input, Undef, Undef)),
                    !.input = <<>>,
                    !.loading = TRUE,
                    !.status = Starting,
                    !.pc = "fetch",
                    !.buffer = <<>>,
                    !.body = [question |-> st.input,
                              chat_history |-> RoleContent(st.messages),
                              llm_provider |-> st.llmProvider,
                              thread_id |-> st.activeThreadId,
                              user_id |-> UserIdOf(user)]]

\* finally
PageFinally(st) == [st EXCEPT !.loading = FALSE, !.status = NoStatus, !.pc = "idle"]

\* response.ok: the reader is created
PageFetchOk(st) == [st EXCEPT !.pc = "read", !.buffer = <<>>]

\* catch, then finally
PageFail(st) ==
    PageFinally([st EXCEPT !.messages = Append(st.messages, Msg("agent", ConnectionFailed, Undef, Undef))])

\* PageRead that leaves the status line alone when the remote provider is selected
PageReadByProvider(st, chunk) ==
    LET r == ReadStep(st.buffer, chunk, st.messages, st.status)
    IN  [st EXCEPT !.buffer = r.buffer, !.messages = r.messages,
                   !.status = IF st.llmProvider = "openrouter" THEN st.status ELSE r.status]

\* one iteration of the reader loop
PageRead(st, chunk) ==
    LET r == ReadStep(st.buffer, chunk, st.messages, st.status)
    IN  [st EXCEPT !.buffer = r.buffer, !.messages = r.messages, !.status = r.status]

\* ---------------------------------------------------------------- two ChatPages, the same events
\* pair.a and pair.b are two pages; every event (input, submission, response,
\* chunk, failure) is given to both, the provider is selected in each alone
PairFresh == [a |-> PageFresh, b |-> PageFresh, wire |-> <<>>, n |-> 0]

\* ---------------------------------------------------------------- AgentChat
AgentGreeting == <<"Hello! I am your AI Data Assistant. Ask me anything about your machines or sensor data.">>

AgentChatFailed == <<"Sorry, I couldn't process that request.">>

\* a message of AgentChat: {role, content, chart_data, chart_type, isStatus}
AMsg(role, content, chart, ctype, isStatus) ==
    [role |-> role, content |-> content, chart_data |-> chart, chart_type |-> ctype,
     isStatus |-> isStatus]

\* the useState values of AgentChat, and its handleSubmit not running
AgentFresh ==
    [messages |-> <<AMsg("agent", AgentGreeting, Undef, Undef, Undef)>>,
     input |-> <<>>, loading |-> FALSE, llmProvider |-> "local",
     pc |-> "idle", body |-> NoBody, wire |-> <<>>, buffer |-> <<>>, dispatched |-> <<>>,
     n |-> 0, used |-> 0]

\* a JavaScript value in a condition
Truthy(v) == v \notin {Undef, Null, "false"}

\* processStreamData that keeps the chart of an anomaly answer only
processStreamDataAnomalyOnly(prev, data) ==
    IF data.type = "answer"
    THEN Append(prev, AMsg("agent", data.content,
                           IF data.chart_type = "scatter_anomaly" THEN data.chart_data ELSE Undef,
                           data.chart_type, Undef))
    ELSE IF data.type = "status"
    THEN IF Len(prev) > 0 /\ Truthy(Last(prev).isStatus)
         THEN [prev EXCEPT ![Len(prev)].content = data.content]
         ELSE Append(prev, AMsg("system", data.content, Undef, Undef, "true"))
    ELSE IF data.type = "error"
    THEN Append(prev, AMsg("agent", ErrorPrefix \o data.content, Undef, Undef, Undef))
    ELSE prev

\* processStreamData that appends a message for every status object
processStreamDataAppendsStatus(prev, data) ==
    IF data.type = "answer"
    THEN Append(prev, AMsg("agent", data.content, data.chart_data, data.chart_type, Undef))
    ELSE IF data.type = "status"
    THEN Append(prev, AMsg("system", data.content, Undef, Undef, "true"))
    ELSE IF data.type = "error"
    THEN Append(prev, AMsg("agent", ErrorPrefix \o data.content, Undef, Undef, Undef))
    ELSE prev

\* AgentChat.processStreamData, as the function setMessages is given
processStreamData(prev, data) ==
    IF data.type = "answer"
    THEN Append(prev, AMsg("agent", data.content, data.chart_data, data.chart_type, Undef))
    ELSE IF data.type = "status"
    THEN IF Len(prev) > 0 /\ Truthy(Last(prev).isStatus)
         THEN [prev EXCEPT ![Len(prev)].content = data.content]
         ELSE Append(prev, AMsg("system", data.content, Undef, Undef, "true"))
    ELSE IF data.type = "error"
    THEN Append(prev, AMsg("agent", ErrorPrefix \o data.content, Undef, Undef, Undef))
    ELSE prev

\* the charts AgentChat renders under a message
ShowsAnomalyChart(msg) ==
    msg.role = "agent" /\ Truthy(msg.chart_data) /\ msg.chart_type = "scatter_anomaly"
ShowsForecastChart(msg) ==
    msg.role = "agent" /\ Truthy(msg.chart_data) /\ msg.chart_type = "forecast"

\* for (const line of lines): trim, skip blank lines, parse, processStreamData
RECURSIVE AgentProcessLines(_, _, _)
AgentProcessLines(lines, msgs, done) ==
    IF lines = <<>> THEN [messages |-> msgs, dispatched |-> done]
    ELSE IF Trim(Head(lines)) = <<>> \/ ~IsJSON(Head(lines))
         THEN AgentProcessLines(Tail(lines), msgs, done)
         ELSE LET data == ParseJSON(Head(lines))
              IN  AgentProcessLines(Tail(lines), processStreamData(msgs, data), Append(done, data))

\* messages.map(role agent -> assistant).filter(role !== 'system')
RECURSIVE AgentHistory(_)
AgentHistory(msgs) ==
    IF msgs = <<>> THEN <<>>
    ELSE LET m == Head(msgs)
             r == IF m.role = "agent" THEN "assistant" ELSE m.role
         IN  (IF r # "system" THEN <<[role |-> r, content |-> m.content]>> ELSE <<>>)
             \o AgentHistory(Tail(msgs))

\* the objects an /agent/stream response can hold for AgentChat
AgentEvents ==
    {[type |-> "answer", content |-> <<"a">>, chart_data |-> d, chart_type |-> k] :
        d \in {Undef, Null, "[]", "chart"}, k \in {Undef, "scatter_anomaly", "forecast", "bar"}}
    \cup {[type |-> t, content |-> c, chart_data |-> Undef, chart_type |-> Undef] :
            t \in {"status"}, c \in {<<"a">>, <<"b">>}}
    \cup {[type |-> t, content |-> <<"a">>, chart_data |-> Undef, chart_type |-> Undef] :
            t \in {"error", "token"}}

\* the line sequences a response to AgentChat can consist of: objects, a
\* blank line, a line that is no JSON
AgentResponseLines ==
    SeqsUpTo({Stringify(ev) : ev \in AgentEvents} \cup {<<" ">>, <<"?">>}, MaxAgentEvents)

\* ---------------------------------------------------------------- MachineCard
\* latest.vibration, in hundredths: a number, or a value that is none (null,
\* undefined)
Vib(v) == [num |-> TRUE, v |-> v]
NoVib == [num |-> FALSE, v |-> 0]

\* the thresholds 0.8 and 1.0 of the status logic, in hundredths
WarningAbove == 80
ErrorAbove == 100

\* x > c of JavaScript for a vibration x and a number c: a value that is no
\* number is not greater than a positive number
Gt(x, c) == x.num /\ x.v > c

\* StatusOf with thresholds that are reached rather than exceeded
StatusOfInclusive(latest) ==
    IF latest.num /\ latest.v >= ErrorAbove THEN "error"
    ELSE IF latest.num /\ latest.v >= WarningAbove THEN "warning"
    ELSE "running"

\* the status fetchMetrics sets for the last record of a non-empty response
StatusOf(latest) ==
    IF Gt(latest, ErrorAbove) THEN "error"
    ELSE IF Gt(latest, WarningAbove) THEN "warning"
    ELSE "running"

\* the useState values of MachineCard after the mount effect has called
\* fetchMetrics once: one poll is in flight
CardFresh == [metrics |-> <<>>, loading |-> TRUE, status |-> "running", polls |-> 1, n |-> 1,
              lastPoll |-> "none"]

\* ---------------------------------------------------------------- AdminPage: handleResetPassword
\* the useState values of AdminPage that handleResetPassword reads and writes
AdminFresh == [error |-> <<>>, success |-> <<>>, selectedUser |-> "null", newPassword |-> <<>>,
               pending |-> {}, timers |-> 0, n |-> 0, lastStep |-> "none"]

\* ---------------------------------------------------------------- ForecastChart
\* a ForecastChart that has no data and has drawn nothing
ChartFresh == [data |-> <<>>, drawn |-> FALSE, styles |-> <<>>]

\* ---------------------------------------------------------------- ChatPage: specification
\* ChatPage is mounted for a signed-in user; the mount effect has called
\* fetchThreads, whose GET /threads is in flight
\* the useState initial values of ChatPage; the server has one thread; pending
\* holds the thread requests in flight
ChatFresh(pending) ==
    /\ messages = <<GreetingMsg>>
    /\ input = <<>>
    /\ loading = FALSE
    /\ status = NoStatus
    /\ llmProvider = "local"
    /\ threads = <<>>
    /\ activeThreadId = Null
    /\ subs = {}
    /\ srvIssued = 1
    /\ srvThreads = <<Thread("t1")>>
    /\ reqs = pending
    /\ nSubmits = 0
    /\ nClicks = 0
    /\ nWork = 0

\* a signed-in user on /chat
SignedIn ==
    /\ user = [id |-> "u1", role |-> "user"]
    /\ token = "tok1"
    /\ authLoading = FALSE
    /\ storage = "tok1"
    /\ authReqs = {}
    /\ effectDue = FALSE
    /\ route = "/chat"
    /\ nLogins = 0

\* the other components are not mounted or idle
OthersIdle ==
    /\ pair = PairFresh /\ agentChat = AgentFresh
    /\ machineCard = CardFresh /\ adminPage = AdminFresh /\ forecastChart = ChartFresh

Init ==
    /\ ChatFresh({Req("fetchThreads", Null, TRUE, <<Thread("t1")>>, Null, <<>>)})
    /\ SignedIn
    /\ OthersIdle
    /\ replaced = FALSE
    /\ last = Did("Init")

Next ==
    \/ \E v \in Inputs : SetInput(v)
    \/ \E p \in Providers : SetLlmProvider(p)
    \/ handleResetChat
    \/ handleSubmit
    \/ \E h \in subs : \E ok \in BOOLEAN : AutoCreateDone(h, ok)
    \/ \E h \in subs : \E lines \in ResponseLines : \E lastNL \in BOOLEAN :
            FetchOk(h, lines, lastNL)
    \/ \E h \in subs : FetchFail(h)
    \/ \E h \in subs : \E n \in 1..Len(h.wire) : ReadChunk(h, n)
    \/ \E h \in subs : ReadDone(h)
    \/ \E h \in subs : ReadThrow(h)
    \/ \E tid \in ThreadIds : ClickThread(tid)
    \/ \E r \in reqs : \E items \in ThreadPayloads : LoadThreadOk(r, items)
    \/ \E r \in reqs : LoadThreadFail(r)
    \/ createNewThread
    \/ \E r \in reqs : CreateThreadOk(r)
    \/ \E r \in reqs : CreateThreadFail(r)
    \/ \E r \in reqs : ThreadListOk(r)
    \/ \E r \in reqs : ThreadListFail(r)
    \/ \E tid \in ThreadIds : deleteThread(tid)
    \/ \E r \in reqs : DeleteThreadOk(r)
    \/ \E r \in reqs : DeleteThreadFail(r)

Spec == Init /\ [][Next]_vars

\* the continuation of an invocation of handleSubmit at its await: the
\* response to POST /threads, the settling of the fetch, a chunk or the end
\* of the response body
Resume(h) ==
    \/ \E ok \in BOOLEAN : AutoCreateDone(h, ok)
    \/ \E lines \in ResponseLines : \E lastNL \in BOOLEAN : FetchOk(h, lines, lastNL)
    \/ FetchFail(h)
    \/ \E n \in 1..Len(h.wire) : ReadChunk(h, n)
    \/ ReadDone(h)
    \/ ReadThrow(h)

\* every awaited promise of handleSubmit settles: the server answers
\* POST /threads and POST /agent/stream and ends every stream it began
PromisesSettle == WF_vars(\E h \in subs : Resume(h))

LiveSpec == Spec /\ PromisesSettle

\* ---------------------------------------------------------------- ChatPage with its threads loaded
\* ChatPage at rest after the mount effect (one thread) or after a further
\* createNewThread (two threads): the sidebar shows the server's threads, the
\* first one is active and empty, no request is in flight
ThreadsInit ==
    /\ \E k \in 1..MaxThreads :
          /\ srvIssued = k
          /\ srvThreads = [i \in 1..k |-> Thread("t" \o ToString(k + 1 - i))]
    /\ threads = srvThreads
    /\ activeThreadId = threads[1].thread_id
    /\ messages = <<GreetingMsg>>
    /\ input = <<>>
    /\ loading = FALSE
    /\ status = NoStatus
    /\ llmProvider = "local"
    /\ subs = {}
    /\ reqs = {}
    /\ nSubmits = 0
    /\ nClicks = 0
    /\ nWork = 0
    /\ SignedIn
    /\ OthersIdle
    /\ replaced = FALSE
    /\ last = Did("Init")

ThreadsSpec == ThreadsInit /\ [][Next]_vars

\* ---------------------------------------------------------------- two ChatPages: specification
\* the two pages after the same step: a is the first page, b the second
PairBoth(a, b) == [pair EXCEPT !.a = a, !.b = b]

PairSelect(pa, pb) ==
    /\ pair.a.pc = "idle"
    /\ <<pa, pb>> # <<pair.a.llmProvider, pair.b.llmProvider>>
    /\ pair' = [pair EXCEPT !.a = PageSelect(pair.a, pa), !.b = PageSelect(pair.b, pb)]
    /\ UNCHANGED <<baseVars, agentChat, widgetVars>>

PairSetInput(v) ==
    /\ pair.n < MaxPairSubmits
    /\ ~pair.a.loading /\ pair.a.input # v
    /\ pair' = PairBoth(PageSetInput(pair.a, v), PageSetInput(pair.b, v))
    /\ UNCHANGED <<baseVars, agentChat, widgetVars>>

PairSubmit ==
    /\ pair.n < MaxPairSubmits
    /\ ~pair.a.loading
    /\ Trim(pair.a.input) # <<>>
    /\ pair' = [PairBoth(PageSubmit(pair.a), PageSubmit(pair.b)) EXCEPT !.n = pair.n + 1]
    /\ UNCHANGED <<baseVars, agentChat, widgetVars>>

PairFetchOk(lines, lastNL) ==
    /\ pair.a.pc = "fetch"
    /\ pair' = [PairBoth(PageFetchOk(pair.a), PageFetchOk(pair.b)) EXCEPT !.wire = ResponseText(lines, lastNL)]
    /\ UNCHANGED <<baseVars, agentChat, widgetVars>>

PairFetchFail ==
    /\ pair.a.pc = "fetch"
    /\ pair' = PairBoth(PageFail(pair.a), PageFail(pair.b))
    /\ UNCHANGED <<baseVars, agentChat, widgetVars>>

PairReadChunk(n) ==
    /\ pair.a.pc = "read"
    /\ n \in 1..Len(pair.wire)
    /\ LET chunk == SubSeq(pair.wire, 1, n)
       IN  pair' = [PairBoth(PageRead(pair.a, chunk), PageRead(pair.b, chunk))
                       EXCEPT !.wire = SubSeq(pair.wire, n + 1, Len(pair.wire))]
    /\ UNCHANGED <<baseVars, agentChat, widgetVars>>

PairReadDone ==
    /\ pair.a.pc = "read"
    /\ pair.wire = <<>>
    /\ pair' = PairBoth(PageFinally(pair.a), PageFinally(pair.b))
    /\ UNCHANGED <<baseVars, agentChat, widgetVars>>

PairReadThrow ==
    /\ pair.a.pc = "read"
    /\ pair' = [PairBoth(PageFail(pair.a), PageFail(pair.b)) EXCEPT !.wire = <<>>]
    /\ UNCHANGED <<baseVars, agentChat, widgetVars>>

PairInit ==
    /\ ChatFresh({})
    /\ SignedIn
    /\ OthersIdle
    /\ replaced = FALSE
    /\ last = Did("Init")

PairNext ==
    \/ \E pa \in Providers : \E pb \in Providers : PairSelect(pa, pb)
    \/ \E v \in Inputs : PairSetInput(v)
    \/ PairSubmit
    \/ \E lines \in ResponseLines : \E lastNL \in BOOLEAN : PairFetchOk(lines, lastNL)
    \/ PairFetchFail
    \/ \E n \in 1..Len(pair.wire) : PairReadChunk(n)
    \/ PairReadDone
    \/ PairReadThrow

PairSpec == PairInit /\ [][PairNext]_vars

\* ---------------------------------------------------------------- AgentChat: handlers
\* the input field (it is not disabled while loading)
AgentSetInput(v) ==
    /\ agentChat.n < MaxAgentSubmits
    /\ agentChat.input # v
    /\ agentChat' = [agentChat EXCEPT !.input = v]
    /\ UNCHANGED <<baseVars, pair, widgetVars>>

\* the provider select
AgentSelect(p) ==
    /\ agentChat.pc = "idle"
    /\ agentChat.llmProvider # p
    /\ agentChat' = [agentChat EXCEPT !.llmProvider = p]
    /\ UNCHANGED <<baseVars, pair, widgetVars>>

\* handleSubmit up to the fetch; the send button is disabled while loading
AgentSubmit ==
    /\ ~agentChat.loading
    /\ agentChat.n < MaxAgentSubmits
    /\ Trim(agentChat.input) # <<>>
    /\ agentChat' = [agentChat EXCEPT
            !.messages = Append(@, AMsg("user", agentChat.input, Undef, Undef, Undef)),
            !.input = <<>>,
            !.loading = TRUE,
            !.pc = "fetch",
            !.buffer = <<>>,
            !.dispatched = <<>>,
            !.n = @ + 1,
            !.body = [question |-> agentChat.input,
                      chat_history |-> AgentHistory(agentChat.messages),
                      llm_provider |-> agentChat.llmProvider,
                      thread_id |-> Undef, user_id |-> Undef]]
    /\ UNCHANGED <<baseVars, pair, widgetVars>>

\* finally { setLoading(false) }
AgentFinally(ac) == [ac EXCEPT !.loading = FALSE, !.pc = "idle", !.wire = <<>>, !.buffer = <<>>]

\* catch, then finally
AgentCatch(ac) ==
    AgentFinally([ac EXCEPT !.messages = Append(@, AMsg("agent", AgentChatFailed, Undef, Undef, Undef))])

\* fetch resolves: the reader loop starts on the response text
AgentFetchOk(lines, lastNL) ==
    /\ agentChat.pc = "fetch"
    /\ agentChat.used + Len(lines) <= MaxAgentEvents
    /\ agentChat' = [agentChat EXCEPT !.pc = "read", !.wire = ResponseText(lines, lastNL),
                                        !.used = @ + Len(lines)]
    /\ UNCHANGED <<baseVars, pair, widgetVars>>

\* fetch rejects
AgentFetchFail ==
    /\ agentChat.pc = "fetch"
    /\ agentChat' = AgentCatch(agentChat)
    /\ UNCHANGED <<baseVars, pair, widgetVars>>

\* one iteration of the reader loop on the first n characters on the wire
AgentReadChunk(n) ==
    /\ agentChat.pc = "read"
    /\ n \in 1..Len(agentChat.wire)
    /\ LET pieces == SplitNL(agentChat.buffer \o SubSeq(agentChat.wire, 1, n))
           r == AgentProcessLines(AllButLast(pieces), agentChat.messages, <<>>)
       IN  agentChat' = [agentChat EXCEPT
                !.wire = SubSeq(@, n + 1, Len(@)),
                !.buffer = Last(pieces),
                !.messages = r.messages,
                !.dispatched = @ \o r.dispatched]
    /\ UNCHANGED <<baseVars, pair, widgetVars>>

\* done: the remaining buffer is processed, then finally
AgentReadDone ==
    /\ agentChat.pc = "read"
    /\ agentChat.wire = <<>>
    /\ LET r == AgentProcessLines(<<agentChat.buffer>>, agentChat.messages, <<>>)
       IN  agentChat' = AgentFinally([agentChat EXCEPT !.messages = r.messages,
                                                      !.dispatched = @ \o r.dispatched])
    /\ UNCHANGED <<baseVars, pair, widgetVars>>

\* reader.read() rejects: catch, then finally
AgentReadThrow ==
    /\ agentChat.pc = "read"
    /\ agentChat' = AgentCatch(agentChat)
    /\ UNCHANGED <<baseVars, pair, widgetVars>>

AgentInit ==
    /\ ChatFresh({})
    /\ SignedIn
    /\ OthersIdle
    /\ replaced = FALSE
    /\ last = Did("Init")

AgentNext ==
    \/ \E v \in Inputs : AgentSetInput(v)
    \/ \E p \in Providers : AgentSelect(p)
    \/ AgentSubmit
    \/ \E lines \in AgentResponseLines : \E lastNL \in BOOLEAN : AgentFetchOk(lines, lastNL)
    \/ AgentFetchFail
    \/ \E n \in 1..Len(agentChat.wire) : AgentReadChunk(n)
    \/ AgentReadDone
    \/ AgentReadThrow

AgentSpec == AgentInit /\ [][AgentNext]_vars

\* ---------------------------------------------------------------- MachineCard: specification
\* the vibrations a record can hold, around both thresholds
Vibrations == {Vib(50), Vib(80), Vib(81), Vib(100), Vib(101), NoVib}

\* the lists GET /machines/{id}/metrics can answer with
CardData == SeqsUpTo({[vibration |-> x] : x \in Vibrations}, MaxMetrics)

\* setInterval(fetchMetrics, 5000) fires: fetchMetrics up to its await
CardTick ==
    /\ machineCard.n < MaxPolls
    /\ machineCard' = [machineCard EXCEPT !.polls = @ + 1, !.n = @ + 1, !.lastPoll = "none"]
    /\ UNCHANGED <<baseVars, pair, agentChat, adminPage, forecastChart>>

\* fetchMetrics resumes with the response: setMetrics, the status of the
\* latest record if there is one, then finally setLoading(false)
CardPollOk(data) ==
    /\ machineCard.polls > 0
    /\ machineCard' = [machineCard EXCEPT
            !.metrics = data,
            !.status = IF Len(data) > 0 THEN StatusOf(data[Len(data)].vibration) ELSE @,
            !.loading = FALSE,
            !.polls = @ - 1,
            !.lastPoll = "ok"]
    /\ UNCHANGED <<baseVars, pair, agentChat, adminPage, forecastChart>>

\* fetchMetrics: the request fails: the error is logged, then finally
CardPollFail ==
    /\ machineCard.polls > 0
    /\ machineCard' = [machineCard EXCEPT !.loading = FALSE, !.polls = @ - 1,
                                          !.lastPoll = "failed"]
    /\ UNCHANGED <<baseVars, pair, agentChat, adminPage, forecastChart>>

CardInit ==
    /\ ChatFresh({})
    /\ SignedIn
    /\ OthersIdle
    /\ replaced = FALSE
    /\ last = Did("Init")

CardNext ==
    \/ CardTick
    \/ \E data \in CardData : CardPollOk(data)
    \/ CardPollFail

CardSpec == CardInit /\ [][CardNext]_vars

\* ---------------------------------------------------------------- AdminPage: specification
\* the length newPassword must reach
MinPasswordLength == 6

\* the ids of the users of the table
AdminUserIds == {"1", "2"}

\* the texts of the password field: empty, too short, long enough
Passwords == {<<>>, <<"a", "b", "c", "d", "e">>, <<"a", "b", "c", "d", "e", "f">>}

\* err.response?.data?.detail of a failed request, or none
ResetDetails == {"undefined", <<"User not found">>}

AdminUnchanged == UNCHANGED <<baseVars, pair, agentChat, machineCard, forecastChart>>

\* the Reset Password button of a row: setSelectedUser(u.id)
AdminSelect(u) ==
    /\ adminPage.selectedUser # u
    /\ adminPage' = [adminPage EXCEPT !.selectedUser = u, !.lastStep = "select"]
    /\ AdminUnchanged

\* the password field of the selected row
AdminSetPassword(v) ==
    /\ adminPage.selectedUser # "null"
    /\ adminPage.newPassword # v
    /\ adminPage' = [adminPage EXCEPT !.newPassword = v, !.lastStep = "type"]
    /\ AdminUnchanged

\* the cancel button of the selected row
AdminCancel ==
    /\ adminPage.selectedUser # "null"
    /\ adminPage' = [adminPage EXCEPT !.selectedUser = "null", !.newPassword = <<>>,
                                      !.lastStep = "cancel"]
    /\ AdminUnchanged

\* handleResetPassword(userId) up to its await: the check of the password,
\* then PUT /admin/users/{userId}/password
handleResetPassword ==
    /\ adminPage.selectedUser # "null"
    /\ adminPage.n < MaxResets
    /\ IF adminPage.newPassword = <<>> \/ Len(adminPage.newPassword) < MinPasswordLength
       THEN adminPage' = [adminPage EXCEPT !.error = <<"Password must be at least 6 characters">>, !.n = @ + 1,
                                           !.lastStep = "rejected"]
       ELSE adminPage' = [adminPage EXCEPT
                !.pending = @ \cup {[userId |-> adminPage.selectedUser,
                                     new_password |-> adminPage.newPassword]},
                !.n = @ + 1, !.lastStep = "sent"]
    /\ AdminUnchanged

\* handleResetPassword resumes after the PUT succeeded
AdminResetOk(r) ==
    /\ r \in adminPage.pending
    /\ adminPage' = [adminPage EXCEPT !.success = <<"Password updated successfully">>, !.selectedUser = "null",
                                      !.newPassword = <<>>, !.timers = @ + 1,
                                      !.pending = @ \ {r}, !.lastStep = "ok"]
    /\ AdminUnchanged

\* handleResetPassword: the PUT failed
AdminResetFail(r, detail) ==
    /\ r \in adminPage.pending
    /\ adminPage' = [adminPage EXCEPT
            !.error = IF detail = "undefined" THEN <<"Failed to reset password">> ELSE detail,
            !.pending = @ \ {r}, !.lastStep = "failed"]
    /\ AdminUnchanged

\* setTimeout(() => setSuccess(''), 3000) fires
AdminTimeout ==
    /\ adminPage.timers > 0
    /\ adminPage' = [adminPage EXCEPT !.success = <<>>, !.timers = @ - 1, !.lastStep = "timeout"]
    /\ AdminUnchanged

\* AdminPage is shown to an administrator and the users are loaded
AdminInit ==
    /\ ChatFresh({})
    /\ SignedIn
    /\ OthersIdle
    /\ replaced = FALSE
    /\ last = Did("Init")

AdminNext ==
    \/ \E u \in AdminUserIds : AdminSelect(u)
    \/ \E v \in Passwords : AdminSetPassword(v)
    \/ AdminCancel
    \/ handleResetPassword
    \/ \E r \in adminPage.pending : AdminResetOk(r)
    \/ \E r \in adminPage.pending : \E detail \in ResetDetails : AdminResetFail(r, detail)
    \/ AdminTimeout

AdminSpec == AdminInit /\ [][AdminNext]_vars

\* ---------------------------------------------------------------- ForecastChart: specification
\* the data of a chart: the type of each record ('history' or 'forecast')
ForecastData == SeqsUpTo({"history", "forecast"}, MaxRecords)

\* data.findIndex(d => d.type === 'forecast'): the index, counted from 0, of
\* the first record of type 'forecast', and -1 when there is none
FindIndex(data) ==
    LET found == {i \in 1..Len(data) : data[i] = "forecast"}
    IN  IF found = {} THEN -1
        ELSE (CHOOSE i \in found : \A j \in found : i <= j) - 1

\* the style of a segment of the prediction, and of the history
PredictionStyle == [borderDash |-> "[6, 6]", borderColor |-> "#f59e0b"]
HistoryStyle == [borderDash |-> "undefined", borderColor |-> "#10b981"]

\* segment.borderDash and segment.borderColor for the segment that starts at
\* the record of index x, counted from 0 (ctx.p0.parsed.x)
SegmentStyle(data, x) ==
    IF x > FindIndex(data) THEN PredictionStyle ELSE HistoryStyle

\* the styles of the segments of the line, in order: one segment between each
\* record and the next
SegmentStyles(data) == [i \in 1..(Len(data) - 1) |-> SegmentStyle(data, i - 1)]

\* <Line data={chartData}/> draws the line
ChartRender ==
    /\ ~forecastChart.drawn
    /\ forecastChart' = [forecastChart EXCEPT !.drawn = TRUE,
                                              !.styles = SegmentStyles(forecastChart.data)]
    /\ UNCHANGED <<baseVars, pair, agentChat, machineCard, adminPage>>

\* the chart is given other data
ChartSetData(d) ==
    /\ forecastChart.drawn
    /\ d # forecastChart.data
    /\ forecastChart' = [data |-> d, drawn |-> FALSE, styles |-> <<>>]
    /\ UNCHANGED <<baseVars, pair, agentChat, machineCard, adminPage>>

\* a ForecastChart that was given some data and has not drawn it yet
ChartInit ==
    /\ ChatFresh({})
    /\ SignedIn
    /\ pair = PairFresh /\ agentChat = AgentFresh
    /\ machineCard = CardFresh /\ adminPage = AdminFresh
    /\ \E d \in ForecastData : forecastChart = [data |-> d, drawn |-> FALSE, styles |-> <<>>]
    /\ replaced = FALSE
    /\ last = Did("Init")

ChartNext ==
    \/ ChartRender
    \/ \E d \in ForecastData : ChartSetData(d)

ChartSpec == ChartInit /\ [][ChartNext]_vars

\* ---------------------------------------------------------------- AuthProvider
Routes == {"/", "/login", "/register", "/chat", "/admin"}

\* the account a token belongs to (GET /auth/me)
AccountOf(tok) == IF tok = "tok2" THEN [id |-> "u2", role |-> "admin"] ELSE [id |-> "u1", role |-> "user"]

\* value.isAuthenticated: !!token && !!user
isAuthenticated == token # Null /\ user # NoUser

\* value.isAdmin: user?.role === 'admin'
isAdmin == user.role = "admin"

\* ProtectedRoute without the loading screen
ProtectedRouteNoLoading(child) ==
    IF ~isAuthenticated THEN "Navigate:/login" ELSE child

\* ProtectedRoute: what it renders around a child page
ProtectedRoute(child) ==
    IF authLoading THEN "loading-screen"
    ELSE IF ~isAuthenticated THEN "Navigate:/login"
    ELSE child

\* AppRoutes: the element rendered at the current location
View ==
    CASE route = "/" -> "Dashboard"
      [] route = "/login" -> IF isAuthenticated THEN "Navigate:/chat" ELSE "LoginPage"
      [] route = "/register" -> IF isAuthenticated THEN "Navigate:/chat" ELSE "RegisterPage"
      [] route = "/chat" -> ProtectedRoute("ChatPage")
      [] route = "/admin" -> ProtectedRoute("AdminPage")
      [] OTHER -> "none"

\* logout() that forgets setUser(null)
LogoutKeepsUser ==
    /\ storage' = Null
    /\ token' = Null
    /\ user' = user
    /\ effectDue' = (token # Null)

\* logout(): the state it leaves
LogoutEffect ==
    /\ storage' = Null
    /\ token' = Null
    /\ user' = NoUser
    /\ effectDue' = (token # Null)

\* useEffect(..., [token]): runs after the render in which token changed,
\* before any other event is handled
RunEffect ==
    /\ effectDue
    /\ effectDue' = FALSE
    /\ IF token # Null
       THEN /\ authReqs' = authReqs \cup {[op |-> "me", token |-> token]}
            /\ UNCHANGED authLoading
       ELSE /\ authLoading' = FALSE
            /\ UNCHANGED authReqs
    /\ UNCHANGED replaced
    /\ last' = Did("RunEffect")
    /\ UNCHANGED <<user, token, storage, route, nLogins, chatVars, otherVars>>

\* fetchUser resumes with the account: setUser, then finally setLoading(false)
FetchUserOk(r) ==
    /\ ~effectDue
    /\ r \in authReqs /\ r.op = "me"
    /\ user' = AccountOf(r.token)
    /\ authLoading' = FALSE
    /\ authReqs' = authReqs \ {r}
    /\ UNCHANGED replaced
    /\ last' = Did("FetchUserOk")
    /\ UNCHANGED <<token, storage, effectDue, route, nLogins, chatVars, otherVars>>

\* fetchUser: the request fails: logout(), then finally setLoading(false)
FetchUserFail(r) ==
    /\ ~effectDue
    /\ r \in authReqs /\ r.op = "me"
    /\ LogoutEffect
    /\ authLoading' = FALSE
    /\ authReqs' = authReqs \ {r}
    /\ UNCHANGED replaced
    /\ last' = Did("FetchUserFail")
    /\ UNCHANGED <<route, nLogins, chatVars, otherVars>>

\* login(username, password) up to its await, called by the login page
login(tok) ==
    /\ ~effectDue
    /\ View = "LoginPage"
    /\ nLogins < MaxLogins
    /\ nLogins' = nLogins + 1
    /\ authReqs' = authReqs \cup {[op |-> "login", token |-> tok]}
    /\ UNCHANGED replaced
    /\ last' = Did("login")
    /\ UNCHANGED <<user, token, authLoading, storage, effectDue, route, chatVars, otherVars>>

\* login resumes with access_token: it is stored and becomes the token
LoginOk(r) ==
    /\ ~effectDue
    /\ r \in authReqs /\ r.op = "login"
    /\ storage' = r.token
    /\ token' = r.token
    /\ effectDue' = (token # r.token)
    /\ authReqs' = authReqs \ {r}
    /\ UNCHANGED replaced
    /\ last' = Did("LoginOk")
    /\ UNCHANGED <<user, authLoading, route, nLogins, chatVars, otherVars>>

\* login: the request fails and login throws to its caller
LoginFail(r) ==
    /\ ~effectDue
    /\ r \in authReqs /\ r.op = "login"
    /\ authReqs' = authReqs \ {r}
    /\ UNCHANGED replaced
    /\ last' = Did("LoginFail")
    /\ UNCHANGED <<user, token, authLoading, storage, effectDue, route, nLogins, chatVars, otherVars>>

\* ChatPage.handleLogout: logout(); navigate('/login')
handleLogout ==
    /\ ~effectDue
    /\ View = "ChatPage"
    /\ LogoutEffect
    /\ route' = "/login"
    /\ UNCHANGED replaced
    /\ last' = Did("handleLogout")
    /\ UNCHANGED <<authLoading, authReqs, nLogins, chatVars, otherVars>>

\* <Navigate to=.../>: the redirect of ProtectedRoute and of /login, /register
Redirect ==
    /\ ~effectDue
    /\ View \in {"Navigate:/login", "Navigate:/chat"}
    /\ route' = IF View = "Navigate:/login" THEN "/login" ELSE "/chat"
    /\ UNCHANGED replaced
    /\ last' = Did("Redirect")
    /\ UNCHANGED <<user, token, authLoading, storage, authReqs, effectDue, nLogins, chatVars, otherVars>>

\* AdminPage: useEffect(() => { if (!authLoading && !isAdmin) navigate('/chat') })
AdminRedirect ==
    /\ ~effectDue
    /\ View = "AdminPage"
    /\ ~authLoading /\ ~isAdmin
    /\ route' = "/chat"
    /\ UNCHANGED replaced
    /\ last' = Did("AdminRedirect")
    /\ UNCHANGED <<user, token, authLoading, storage, authReqs, effectDue, nLogins, chatVars, otherVars>>

\* a link, a navigate() of a page, or the address bar of the running app
GoTo(r) ==
    /\ ~effectDue
    /\ r \in Routes /\ r # route
    /\ route' = r
    /\ UNCHANGED replaced
    /\ last' = Did("GoTo")
    /\ UNCHANGED <<user, token, authLoading, storage, authReqs, effectDue, nLogins, chatVars, otherVars>>

\* the app starts at some location; localStorage holds a token of an earlier
\* session or none; the first render is done and the effect is scheduled
AuthInit ==
    /\ storage \in Tokens \cup {Null}
    /\ token = storage
    /\ user = NoUser
    /\ authLoading = TRUE
    /\ authReqs = {}
    /\ effectDue = TRUE
    /\ route \in Routes
    /\ nLogins = 0
    /\ ChatFresh({})
    /\ OthersIdle
    /\ replaced = FALSE
    /\ last = Did("Init")

AuthNext ==
    \/ RunEffect
    \/ \E r \in authReqs : FetchUserOk(r)
    \/ \E r \in authReqs : FetchUserFail(r)
    \/ \E tok \in Tokens : login(tok)
    \/ \E r \in authReqs : LoginOk(r)
    \/ \E r \in authReqs : LoginFail(r)
    \/ handleLogout
    \/ Redirect
    \/ AdminRedirect
    \/ \E r \in Routes : GoTo(r)

AuthSpec == AuthInit /\ [][AuthNext]_vars

\* ================================================================ properties
\* the response text of a request, and the part of it that has been read
FullText(h) == ResponseText(h.lines, h.lastNL)
Received(h) == SubSeq(FullText(h), 1, Len(FullText(h)) - Len(h.wire))

\* the reader has read the whole response: only the done signal is to come
StreamRead(h) == h.pc = "read" /\ h.wire = <<>>

RECURSIVE Concat(_)
Concat(ss) == IF ss = <<>> THEN <<>> ELSE Head(ss) \o Concat(Tail(ss))

\* the contents of the token objects, in order
RECURSIVE TokenContents(_)
TokenContents(objs) ==
    IF objs = <<>> THEN <<>>
    ELSE (IF Head(objs).type = "token" THEN <<Head(objs).content>> ELSE <<>>)
         \o TokenContents(Tail(objs))

\* token+ followed by one answer_end, only status and log objects in between
IsTokenStream(objs) ==
    /\ Len(objs) >= 2
    /\ Last(objs).type = "answer_end"
    /\ \A i \in 1..(Len(objs) - 1) : objs[i].type \in {"token", "status", "log"}
    /\ \E i \in 1..(Len(objs) - 1) : objs[i].type = "token"

\* C1: a response of token objects t1..tn followed by answer_end (only status
\* and log objects between them), read to its end with the conversation not
\* replaced meanwhile, leaves the conversation as it was shown before the
\* question, then the question, then one agent message whose content is
\* t1+...+tn and whose streaming flag is false.
C1_TokensConcatenated ==
    \A h \in subs :
        (StreamRead(h) /\ ~replaced /\ IsTokenStream(ObjectsOf(h.lines)))
        => messages = h.shown \o <<Msg("user", h.userMsg, Undef, Undef),
                                   Msg("agent", Concat(TokenContents(ObjectsOf(h.lines))), "false", Undef)>>

\* the same for the responses whose last line ends with a line feed
TokensConcatenatedWhenTerminated ==
    \A h \in subs :
        (StreamRead(h) /\ ~replaced /\ h.lastNL /\ IsTokenStream(ObjectsOf(h.lines)))
        => messages = h.shown \o <<Msg("user", h.userMsg, Undef, Undef),
                                   Msg("agent", Concat(TokenContents(ObjectsOf(h.lines))), "false", Undef)>>

\* C2: at most one /agent/stream request of the page is in flight, loading is
\* true from the submission of a question until its request has ended, and
\* while loading is true the form is disabled and nothing can be submitted.
C2_Serialized ==
    /\ Cardinality(subs) <= 1
    /\ subs # {} => loading
    /\ loading => (FormDisabled /\ ~CanSubmit)

\* C2 happens: a second question is being answered after the first has ended
C2_Witness == nSubmits = 2 /\ \E h \in subs : h.pc = "read" /\ loading

\* C3: at every point of the reader loop the objects dispatched so far are the
\* objects of the newline-terminated lines of the text received so far, in
\* order and each once, and the buffer is the unterminated rest: this is a
\* function of the text alone, whatever the chunks were.
C3_ChunkIndependent ==
    \A h \in subs :
        h.pc = "read" =>
            LET pieces == SplitNL(Received(h)) IN
            /\ h.dispatched = ObjectsOf(AllButLast(pieces))
            /\ h.buffer = Last(pieces)

\* C3 happens: two lines are dispatched and the third is held in the buffer,
\* its line feed being in a later chunk
C3_Witness ==
    \E h \in subs :
        /\ h.pc = "read" /\ last.act = "ReadChunk"
        /\ Len(h.lines) = 3
        /\ Len(h.dispatched) = 2
        /\ h.buffer # <<>> /\ h.wire = <<NL>>

\* C4: when the response has been read to its end every object the server
\* sent has been dispatched, the last one also when no line feed follows it.
C4_AllObjectsDispatched ==
    \A h \in subs : StreamRead(h) => h.dispatched = ObjectsOf(h.lines)

\* the same for the responses whose last line ends with a line feed
AllObjectsDispatchedWhenTerminated ==
    \A h \in subs : (StreamRead(h) /\ h.lastNL) => h.dispatched = ObjectsOf(h.lines)

\* C5: a step of the reader loop keeps every message but the last one as it
\* was and in place, and never shortens the list.
C5_AppendOnly ==
    [][last'.act = "ReadChunk" =>
          /\ Len(messages') >= Len(messages)
          /\ \A i \in 1..(Len(messages) - 1) : messages'[i] = messages[i]]_vars

\* C5 happens: a later token was appended to the streaming message
C5_Witness ==
    /\ last.act = "ReadChunk"
    /\ Len(messages) >= 3
    /\ Last(messages).streaming = "true" /\ Len(Last(messages).content) = 2

\* the objects the reader dispatched in this step
StepDispatched(h, h2) == SubSeq(h2.dispatched, Len(h.dispatched) + 1, Len(h2.dispatched))

\* a dispatched error object appends exactly one agent message
\* 'Error: <content>' and leaves every earlier message, a partially streamed
\* one included, as it was; when the request has ended loading is false and
\* the form can be submitted again
ErrorDispatchKeepsConversation ==
    [][/\ last'.act = "ReadChunk" =>
            \A h \in subs \ subs' : \A h2 \in subs' \ subs :
                LET d == StepDispatched(h, h2) IN
                (Len(d) = 1 /\ d[1].type = "error")
                => messages' = Append(messages, Msg("agent", ErrorPrefix \o d[1].content, Undef, Undef))
       /\ last'.act \in {"ReadDone", "ReadThrow", "FetchFail"} => (~loading' /\ CanSubmit')]_vars

\* tokens (status and log objects between them), then one error object
IsErrorStream(objs) ==
    /\ Len(objs) >= 1
    /\ Last(objs).type = "error"
    /\ \A i \in 1..(Len(objs) - 1) : objs[i].type \in {"token", "status", "log"}

\* the conversation an error stream has to leave: the messages shown before,
\* the question, the partially streamed message if tokens came, the error
AfterErrorStream(h, objs) ==
    h.shown \o <<Msg("user", h.userMsg, Undef, Undef)>>
    \o (IF TokenContents(objs) = <<>> THEN <<>>
        ELSE <<Msg("agent", Concat(TokenContents(objs)), "true", Undef)>>)
    \o <<Msg("agent", ErrorPrefix \o Last(objs).content, Undef, Undef)>>

\* every error object received has been shown when the response is read
ErrorShown ==
    \A h \in subs :
        (StreamRead(h) /\ ~replaced /\ IsErrorStream(ObjectsOf(h.lines)))
        => messages = AfterErrorStream(h, ObjectsOf(h.lines))

\* the same for the responses whose last line ends with a line feed
ErrorShownWhenTerminated ==
    \A h \in subs :
        (StreamRead(h) /\ ~replaced /\ h.lastNL /\ IsErrorStream(ObjectsOf(h.lines)))
        => messages = AfterErrorStream(h, ObjectsOf(h.lines))

\* C6: an error object received, also after tokens, leaves every earlier
\* message, a partially streamed one included, as it was and adds exactly one
\* agent message 'Error: <content>'; when the request has ended loading is
\* false and the form can be submitted again.
C6_ErrorKeepsConversation == []ErrorShown /\ ErrorDispatchKeepsConversation

\* tokens, then an error, and a further question was submitted
ErrorThenQuestion ==
    /\ nSubmits = 2
    /\ \E i \in 1..(Len(messages) - 2) :
          /\ messages[i].streaming = "true"
          /\ messages[i + 1] = Msg("agent", ErrorPrefix \o <<"a">>, Undef, Undef)
          /\ messages[i + 2].role = "user"

\* status and log objects, then either one answer or token+ and answer_end
IsProtocolStream(objs) ==
    \E k \in 0..Len(objs) :
        /\ \A i \in 1..k : objs[i].type \in {"status", "log"}
        /\ LET rest == SubSeq(objs, k + 1, Len(objs)) IN
           \/ Len(rest) = 1 /\ rest[1].type = "answer"
           \/ /\ Len(rest) >= 2
              /\ Last(rest).type = "answer_end"
              /\ \A i \in 1..(Len(rest) - 1) : rest[i].type = "token"

\* C7: while a question is being answered and the conversation is not
\* replaced, the conversation is what was shown before, then exactly one user
\* message with the question; and once a response that follows the protocol
\* has been read to its end, exactly one agent message follows it.
C7_OneExchangePerRequest ==
    \A h \in subs :
        ~replaced =>
            /\ Len(messages) >= Len(h.shown) + 1
            /\ SubSeq(messages, 1, Len(h.shown) + 1) = h.shown \o <<Msg("user", h.typed, Undef, Undef)>>
            /\ (StreamRead(h) /\ IsProtocolStream(ObjectsOf(h.lines)))
                => /\ Len(messages) = Len(h.shown) + 2
                   /\ Last(messages).role = "agent"

\* the same for the responses whose last line ends with a line feed
OneExchangeWhenTerminated ==
    \A h \in subs :
        (~replaced /\ h.pc = "read" /\ h.lastNL) =>
            /\ SubSeq(messages, 1, Len(h.shown) + 1) = h.shown \o <<Msg("user", h.typed, Undef, Undef)>>
            /\ (StreamRead(h) /\ IsProtocolStream(ObjectsOf(h.lines)))
                => /\ Len(messages) = Len(h.shown) + 2
                   /\ Last(messages).role = "agent"

\* C8: every request was submitted with a text that is not blank, and the body
\* of a request that has been sent has the submitted text as question, the
\* role/content pairs of the messages shown before the submission as
\* chat_history, the provider selected at the submission, the thread that was
\* active at the submission or the one just created, and the user's id.
C8_RequestBody ==
    \A h \in subs :
        /\ Trim(h.typed) # <<>>
        /\ h.pc \in {"fetch", "read"} =>
              /\ h.body.question = h.typed
              /\ Len(h.body.chat_history) = Len(h.shown)
              /\ \A i \in 1..Len(h.shown) :
                    /\ h.body.chat_history[i].role = h.shown[i].role
                    /\ h.body.chat_history[i].content = h.shown[i].content
              /\ h.body.llm_provider = h.shownProvider
              /\ h.body.thread_id = (IF h.shownActive # Null THEN h.shownActive
                                      ELSE IF h.created THEN h.newId ELSE Null)
              /\ h.body.user_id = (IF user = NoUser THEN "anonymous" ELSE user.id)

\* C8 happens: a question asked in a loaded thread of two messages was sent
C8_Witness ==
    \E h \in subs :
        /\ h.pc = "fetch"
        /\ Len(h.body.chat_history) = 2
        /\ h.body.thread_id = "t1"

\* C9: when createNewThread resumes with the new thread, that thread is first
\* in the list and active and the conversation is the greeting alone; a
\* loaded thread without messages shows the greeting alone; a failed request
\* of either kind changes neither the list, the active thread nor the messages.
C9_CreateAndEmptyLoad ==
    [][/\ last'.act = "CreateThreadOk" =>
            \E r \in reqs \ reqs' :
                /\ r.op = "create"
                /\ Len(threads') = Len(threads) + 1
                /\ threads'[1].thread_id = r.tid
                /\ activeThreadId' = r.tid
                /\ messages' = <<GreetingMsg>>
       /\ (last'.act = "LoadThreadOk" /\ last'.n = 0) => messages' = <<GreetingMsg>>
       /\ last'.act \in {"CreateThreadFail", "LoadThreadFail"} =>
            UNCHANGED <<threads, activeThreadId, messages>>]_vars

\* C9 happens: a thread was created while the list already had a thread
C9_Witness ==
    /\ last.act = "CreateThreadOk"
    /\ Len(threads) = 2
    /\ activeThreadId = threads[1].thread_id

\* C10: /chat and /admin show their page only when isAuthenticated holds and
\* loading is false; while loading is true they show the loading screen (no
\* redirect); when loading is false and isAuthenticated is false they
\* redirect to /login.
C10_ProtectedPages ==
    /\ View \in {"ChatPage", "AdminPage"} => (isAuthenticated /\ ~authLoading)
    /\ route \in {"/chat", "/admin"} =>
          /\ authLoading => View = "loading-screen"
          /\ (~authLoading /\ ~isAuthenticated) => View = "Navigate:/login"
          /\ (~authLoading /\ isAuthenticated) => View = (IF route = "/chat" THEN "ChatPage" ELSE "AdminPage")

\* C10 happens: the admin page is shown to a signed-in user
C10_Witness == View = "AdminPage" /\ last.act = "GoTo"

\* ---------------------------------------------------------------- C11
\* C11: two pages that are given the same inputs and the same response, each
\* with a provider of its own, have equal messages, status and loading after
\* every event; their request bodies differ in llm_provider at most, and
\* llm_provider is the provider selected on that page, 'local' or 'openrouter'.
C11_ProviderIndependent ==
    /\ pair.a.messages = pair.b.messages
    /\ pair.a.status = pair.b.status
    /\ pair.a.loading = pair.b.loading
    /\ pair.a.llmProvider \in Providers /\ pair.b.llmProvider \in Providers
    /\ pair.a.pc # "idle" =>
          /\ pair.a.body.llm_provider = pair.a.llmProvider
          /\ pair.b.body.llm_provider = pair.b.llmProvider
          /\ [pair.a.body EXCEPT !.llm_provider = Null] = [pair.b.body EXCEPT !.llm_provider = Null]

\* C11 happens: the pages have different providers and have read a status
\* line and a token of the same response
C11_Witness ==
    /\ pair.a.llmProvider # pair.b.llmProvider
    /\ pair.a.pc = "read"
    /\ pair.a.status = <<"a">>
    /\ Last(pair.a.messages).streaming = "true"

\* ---------------------------------------------------------------- C12
\* the objects AgentChat dispatched in this step
AgentStepDispatched ==
    SubSeq(agentChat'.dispatched, Len(agentChat.dispatched) + 1, Len(agentChat'.dispatched))

Present(v) == v \notin {Undef, Null}

\* C12: a step of AgentChat that dispatches one answer object appends one
\* agent message with the content, chart_data and chart_type of the object;
\* that message shows the anomaly chart exactly when chart_data is present
\* and chart_type is 'scatter_anomaly', the forecast chart exactly when
\* chart_data is present and chart_type is 'forecast', and never both.
C12_AnswerStored ==
    [][\A d \in AgentEvents :
          (agentChat.pc = "read" /\ AgentStepDispatched = <<d>> /\ d.type = "answer")
          => LET m == Last(agentChat'.messages) IN
             /\ agentChat'.messages = Append(agentChat.messages, m)
             /\ m.role = "agent" /\ m.content = d.content
             /\ m.chart_data = d.chart_data /\ m.chart_type = d.chart_type
             /\ ShowsAnomalyChart(m) <=> (Present(d.chart_data) /\ d.chart_type = "scatter_anomaly")
             /\ ShowsForecastChart(m) <=> (Present(d.chart_data) /\ d.chart_type = "forecast")
             /\ ~(ShowsAnomalyChart(m) /\ ShowsForecastChart(m))]_vars

\* C12 happens: an answer with a forecast chart is the last message
C12_Witness ==
    /\ Len(agentChat.dispatched) = 2
    /\ agentChat.dispatched[2].type = "answer"
    /\ ShowsForecastChart(Last(agentChat.messages))
    /\ ~ShowsAnomalyChart(Last(agentChat.messages))

\* ---------------------------------------------------------------- C13
\* C13: when loadThread(id) resumes with a sequence that is not empty, the
\* messages are that sequence, in order and of the same length, each with the
\* role and content of its item and the chart_data of the item's metadata,
\* and id is the active thread; when the request fails, messages and active
\* thread stay as they are.
C13_LoadThreadShowsSequence ==
    [][/\ (last'.act = "LoadThreadOk" /\ last'.n > 0) =>
            \E r \in reqs \ reqs' :
                LET items == last'.items IN
                /\ r.op = "load" /\ activeThreadId' = r.tid
                /\ Len(messages') = Len(items)
                /\ \A i \in 1..Len(items) :
                      /\ messages'[i].role = items[i].role
                      /\ messages'[i].content = items[i].content
                      /\ messages'[i].chart_data =
                            (IF items[i].metadata = <<>> THEN Undef
                             ELSE items[i].metadata[1].chart_data)
       /\ last'.act = "LoadThreadFail" => UNCHANGED <<messages, activeThreadId>>]_vars

\* C13 happens: a thread of a question and an answer with a chart was loaded
C13_Witness ==
    /\ last.act = "LoadThreadOk" /\ last.n = 2
    /\ activeThreadId = "t1"
    /\ messages[1].role = "user" /\ messages[2].chart_data = "chart"

\* ---------------------------------------------------------------- C14
\* no GET, POST or DELETE on /threads is waiting for its response
NoThreadRequest == reqs = {} /\ \A h \in subs : h.pc # "create"

\* C14: when no thread request is pending, the active thread is null or a
\* thread of the sidebar list.
C14_ActiveThreadListed ==
    NoThreadRequest => (activeThreadId = Null \/ activeThreadId \in IdsOf(threads))

\* ---------------------------------------------------------------- C15
\* C15: once loadThread, createNewThread or handleResetChat has replaced the
\* displayed messages while a question is being answered, no step of the
\* reader loop of that request changes the displayed messages.
C15_EventsStayInConversation ==
    [][(last'.act = "ReadChunk" /\ replaced) => messages' = messages]_vars

\* ---------------------------------------------------------------- C16
\* a line that is blank, is no JSON, or is an object of type log or of a type
\* the page does not know
Ignorable(line) ==
    \/ Trim(line) = <<>>
    \/ ~IsJSON(line)
    \/ ParseJSON(line).type \in {"log", "unknown"}

\* the lines the reader completed in the step that took h to h2
StepLines(h, h2) ==
    AllButLast(SplitNL(h.buffer \o SubSeq(h.wire, 1, Len(h.wire) - Len(h2.wire))))

\* C16: a step of the reader loop whose lines are all blank, no JSON, of type
\* log or of an unknown type leaves messages and status unchanged; and in
\* every step the loop goes on and every object among the step's lines is
\* dispatched, whatever lines came before it.
C16_IgnoredLines ==
    [][last'.act = "ReadChunk" =>
          \A h \in subs \ subs' : \A h2 \in subs' \ subs :
              /\ (\A i \in 1..Len(StepLines(h, h2)) : Ignorable(StepLines(h, h2)[i]))
                    => (messages' = messages /\ status' = status)
              /\ h2.pc = "read"
              /\ h2.dispatched = h.dispatched \o ObjectsOf(StepLines(h, h2))]_vars

\* C16 happens: a line that is no JSON, a log line, then a token that was dispatched
C16_Witness ==
    \E h \in subs :
        /\ h.pc = "read" /\ last.act = "ReadChunk"
        /\ Len(h.lines) = 3 /\ h.lines[1] = <<"?">>
        /\ Len(h.dispatched) = 2
        /\ h.dispatched[1].type = "log" /\ h.dispatched[2].type = "token"
        /\ Last(messages).content = <<"a">> /\ Last(messages).streaming = "true"

\* ---------------------------------------------------------------- C17
\* C17: when the fetch of /agent/stream rejects or its response is not OK,
\* no object of a response has been dispatched for the request and the step
\* appends one agent message 'Sorry, connection failed. Please try again.' to
\* the displayed messages, which stay as they were, the question included.
C17_ConnectionFailed ==
    [][last'.act = "FetchFail" =>
          \E h \in subs \ subs' :
              /\ h.dispatched = <<>> /\ h.lines = <<>>
              /\ messages' = Append(messages,
                     [role |-> "agent",
                      content |-> <<"Sorry, connection failed. Please try again.">>,
                      streaming |-> Undef, chart_data |-> Undef])
              /\ ~replaced => SubSeq(messages', 1, Len(h.shown) + 1)
                                 = h.shown \o <<Msg("user", h.typed, Undef, Undef)>>]_vars

\* C17 happens: the request of a question failed and the message follows the question
C17_Witness ==
    /\ last.act = "FetchFail"
    /\ Len(messages) = 3
    /\ messages[2] = Msg("user", <<"q">>, Undef, Undef)
    /\ messages[3].content = ConnectionFailed

\* ---------------------------------------------------------------- C18
\* the object of one of these types sets or clears the status line
FirstEventTypes == {"status", "token", "answer", "error"}

\* no status, token, answer or error object of the response was dispatched yet
NoEventYet(h) ==
    \A i \in 1..Len(h.dispatched) : h.dispatched[i].type \notin FirstEventTypes

\* from submission until the first status, token, answer or error event the
\* status line reads 'Starting...'
StartingUntilFirstEvent ==
    \A h \in subs : NoEventYet(h) => status = <<"Starting...">>

\* however the request ends, the page ends with loading = false and
\* status = '' and a refresh of the thread list is issued
EndsIdle ==
    [][last'.act \in {"ReadDone", "ReadThrow", "FetchFail"} =>
          /\ subs' = {}
          /\ loading' = FALSE /\ status' = <<>>
          /\ \E r \in reqs' : r.op = "refresh"]_vars

\* a page that is loading stops loading
ReturnsToIdle == loading ~> ~loading

\* C18: every submitted request returns ChatPage to idle: the status is
\* 'Starting...' from submission until the first status, token, answer or
\* error event; however the request ends, loading is false, the status is ''
\* and one refresh of the thread list is issued; loading does not stay true
\* for ever.
C18_ReturnsToIdle == []StartingUntilFirstEvent /\ EndsIdle /\ ReturnsToIdle

\* ---------------------------------------------------------------- C19
\* the request to /agent/stream of h has been sent
Sent(h) == h.pc \in {"fetch", "read"}

\* every /agent/stream request that was sent carries a thread id
SentWithThread == \A h \in subs : Sent(h) => h.body.thread_id # "null"

\* a question submitted with no active thread waits for POST /threads: the
\* stream request is not sent before the creation has finished
CreateFirst ==
    [][last'.act = "handleSubmit" =>
          \E h \in subs' \ subs :
              IF activeThreadId = "null"
              THEN h.pc = "create" /\ h.body = NoBody /\ ~Sent(h)
              ELSE Sent(h) /\ h.body.thread_id = activeThreadId]_vars

\* when the creation succeeds the request carries the id of the new thread,
\* which is active and first in the list
CreatedThreadUsed ==
    [][last'.act = "AutoCreateOk" =>
          \E h \in subs \ subs' : \E h2 \in subs' \ subs :
              /\ h.pc = "create" /\ Sent(h2)
              /\ h2.body.thread_id = h.newId /\ h.newId # "null"
              /\ activeThreadId' = h.newId
              /\ threads' # <<>> /\ threads'[1].thread_id = h.newId]_vars

\* C19: with no active thread a question first creates a thread and sends the
\* stream request only after the creation has finished; when the creation
\* succeeds the request carries the new thread's id and the new thread is
\* active and first in the list; every /agent/stream request that is sent
\* carries a thread_id that is not null.
C19_ThreadBeforeStream == []SentWithThread /\ CreateFirst /\ CreatedThreadUsed

\* ---------------------------------------------------------------- C20
\* a user that is not null is the answer of /auth/me for the current token
UserOfCurrentToken == user # NoUser => (token # "null" /\ user = AccountOf(token))

\* C20: in every interleaving of login, logout and /auth/me responses a user
\* that is not null is the /auth/me result for the current token: it is never
\* set while token is null and never the account of an earlier token; so
\* isAdmin implies isAuthenticated.
C20_UserOfCurrentToken == UserOfCurrentToken /\ (isAdmin => isAuthenticated)

\* ---------------------------------------------------------------- C21
\* a token is present and GET /auth/me for it is not answered yet: the effect
\* that sends it is due, or the request is in flight
MePending ==
    /\ token # "null"
    /\ \/ effectDue
       \/ \E r \in authReqs : r.op = "me" /\ r.token = token

\* C21: while a token is present and its /auth/me request has not been
\* answered, loading is true, and a protected page does not redirect the
\* holder of the token to /login; on first mount with a stored token and
\* after a successful login.
C21_LoadingWhileMePending ==
    MePending => (authLoading /\ (route \in {"/chat", "/admin"} => View # "Navigate:/login"))

\* ---------------------------------------------------------------- C22
\* C22: after logout() the key auth_token is absent from localStorage, token
\* and user are null and isAuthenticated and isAdmin are false; a failed
\* /auth/me request performs this logout and then sets loading to false.
C22_LogoutClearsSession ==
    [][last'.act \in {"handleLogout", "FetchUserFail"} =>
          /\ storage' = "null" /\ token' = "null"
          /\ user' = [id |-> "null", role |-> "null"]
          /\ ~isAuthenticated' /\ ~isAdmin'
          /\ last'.act = "FetchUserFail" => ~authLoading']_vars

\* C22 happens: a user who signed in has logged out on the chat page
C22_Witness ==
    /\ last.act = "handleLogout" /\ nLogins > 0
    /\ route = "/login" /\ token = "null" /\ user = NoUser /\ storage = "null"

\* C22 happens for a failed /auth/me request of a token that a login stored
C22_WitnessFailed ==
    /\ last.act = "FetchUserFail" /\ nLogins > 0
    /\ token = "null" /\ user = NoUser /\ ~authLoading

\* ---------------------------------------------------------------- C23
\* C23: the sidebar thread list never contains the same thread_id twice, in
\* every interleaving of createNewThread, the auto-create of handleSubmit,
\* refreshThreads and their responses.
C23_NoDuplicateThreads ==
    \A i, j \in 1..Len(threads) : threads[i].thread_id = threads[j].thread_id => i = j

\* ---------------------------------------------------------------- C24
\* the deletion of thread id succeeded: the server created and deleted it and
\* deleteThread has handled the response
Deleted(id) ==
    /\ \E i \in 1..srvIssued : id = "t" \o ToString(i)
    /\ id \notin IdsOf(srvThreads)
    /\ \A r \in reqs : ~(r.op = "delete" /\ r.tid = id)

\* C24: a thread whose deletion succeeded and that has left the sidebar list
\* never comes back into it, also when a thread list request that was issued
\* before the deletion is answered after it.
C24_DeletedStaysDeleted ==
    [][\A id \in ThreadIds :
          (Deleted(id) /\ id \notin IdsOf(threads)) => id \notin IdsOf(threads')]_vars

\* ---------------------------------------------------------------- C25
\* message m of AgentChat is a status message
IsStatusMsg(m) == m.isStatus = "true"

\* no two status messages are adjacent, and a message has isStatus exactly
\* when its role is 'system'
StatusMessagesApart ==
    LET msgs == agentChat.messages IN
    /\ \A i \in 1..(Len(msgs) - 1) : ~(IsStatusMsg(msgs[i]) /\ IsStatusMsg(msgs[i + 1]))
    /\ \A i \in 1..Len(msgs) : IsStatusMsg(msgs[i]) <=> msgs[i].role = "system"

\* the chat_history of the request holds no message of role 'system': it is
\* the messages displayed at submission without the status messages
HistoryWithoutStatus ==
    LET hist == agentChat.body.chat_history IN
    \A i \in 1..Len(hist) : hist[i].role \in {"user", "assistant"}

\* a step that dispatches one status object replaces the content of a last
\* message that is a status message, and appends one status message otherwise
StatusReplacesOrAppends ==
    [][\A d \in AgentEvents :
          (agentChat.pc = "read" /\ AgentStepDispatched = <<d>> /\ d.type = "status")
          => LET old == agentChat.messages
                 new == agentChat'.messages
             IN  IF IsStatusMsg(Last(old))
                 THEN /\ Len(new) = Len(old)
                      /\ SubSeq(new, 1, Len(old) - 1) = SubSeq(old, 1, Len(old) - 1)
                      /\ Last(new) = [Last(old) EXCEPT !.content = d.content]
                 ELSE new = Append(old, [role |-> "system", content |-> d.content,
                                         chart_data |-> "undefined", chart_type |-> "undefined",
                                         isStatus |-> "true"])]_vars

\* the history sent with a question is the displayed messages without the
\* status messages
HistorySkipsStatus ==
    [][(agentChat.pc = "idle" /\ agentChat'.pc = "fetch") =>
          LET hist == agentChat'.body.chat_history
              shown == agentChat.messages
              kept == {i \in 1..Len(shown) : ~IsStatusMsg(shown[i])}
          IN  /\ Len(hist) = Cardinality(kept)
              /\ \A i \in 1..Len(hist) : hist[i].role # "system"]_vars

\* C25: in AgentChat status events never produce two adjacent status
\* messages: a status event that follows a status message replaces its
\* content, any other status event appends one message of role 'system' with
\* isStatus true; a message has isStatus exactly when its role is 'system';
\* no such message is in the chat_history sent to the server.
C25_StatusMessages ==
    /\ []StatusMessagesApart /\ []HistoryWithoutStatus
    /\ StatusReplacesOrAppends /\ HistorySkipsStatus

\* C25 happens: the second of two status events replaced the content of the
\* status message the first one appended
C25_Witness ==
    /\ Len(agentChat.dispatched) = 2
    /\ agentChat.dispatched[1].type = "status" /\ agentChat.dispatched[1].content = <<"a">>
    /\ agentChat.dispatched[2].type = "status" /\ agentChat.dispatched[2].content = <<"b">>
    /\ Len(agentChat.messages) = 3
    /\ IsStatusMsg(agentChat.messages[3]) /\ agentChat.messages[3].content = <<"b">>

\* C25 happens for the history: the second question was sent with a history
\* that leaves out the status message of the first
HistorySkippedStatus ==
    /\ agentChat.n = 2 /\ agentChat.pc = "fetch"
    /\ Len(agentChat.messages) = 4
    /\ IsStatusMsg(agentChat.messages[3])
    /\ Len(agentChat.body.chat_history) = 2

\* ---------------------------------------------------------------- C26
\* a poll of MachineCard was answered or failed in this step
CardPollEnded == machineCard'.polls < machineCard.polls

\* C26: after a successful poll that returns a non-empty list, status is
\* 'error' if the vibration of the last record is greater than 1.0, 'warning'
\* if it is greater than 0.8 and at most 1.0, 'running' if it is at most 0.8;
\* an empty result or a failed poll leaves status unchanged.
C26_StatusOfLatest ==
    [][CardPollEnded =>
          LET data == machineCard'.metrics
              latest == data[Len(data)].vibration
          IN  IF machineCard'.lastPoll = "ok" /\ data # <<>>
              THEN latest.num =>
                     /\ latest.v > 100 => machineCard'.status = "error"
                     /\ (latest.v > 80 /\ latest.v <= 100) => machineCard'.status = "warning"
                     /\ latest.v <= 80 => machineCard'.status = "running"
              ELSE machineCard'.status = machineCard.status]_vars

\* C26 happens: the second poll returned two records, the last one with
\* vibration 1.0 exactly, and the status is 'warning'
C26_Witness ==
    /\ machineCard.lastPoll = "ok" /\ machineCard.n = 2 /\ machineCard.polls = 0
    /\ Len(machineCard.metrics) = 2
    /\ machineCard.metrics[1].vibration = Vib(101)
    /\ machineCard.metrics[2].vibration = Vib(100)
    /\ machineCard.status = "warning"

\* ---------------------------------------------------------------- C27
\* handleResetPassword with an empty or too short password sends no request
\* and changes only the error message
ShortPasswordRejected ==
    [][(adminPage'.n > adminPage.n /\ Len(adminPage.newPassword) < 6) =>
          /\ adminPage'.pending = adminPage.pending
          /\ adminPage'.success = adminPage.success
          /\ adminPage'.selectedUser = adminPage.selectedUser
          /\ adminPage'.newPassword = adminPage.newPassword
          /\ adminPage'.timers = adminPage.timers]_vars

\* when the request succeeds selectedUser is null, newPassword is empty and
\* the success message is shown
ResetSucceeded ==
    [][adminPage'.lastStep = "ok" =>
          /\ adminPage'.selectedUser = "null" /\ adminPage'.newPassword = <<>>
          /\ adminPage'.success = <<"Password updated successfully">>]_vars

\* the two banners are not shown together
OneBanner == ~(adminPage.error # <<>> /\ adminPage.success # <<>>)

\* C27: handleResetPassword sends no request when the new password is empty
\* or shorter than 6 characters and then changes only the error message; when
\* the request succeeds, selectedUser is null, newPassword is empty and the
\* success message is shown; an error message and the success message are
\* never shown at the same time.
C27_ResetPassword == ShortPasswordRejected /\ ResetSucceeded /\ []OneBanner

\* ---------------------------------------------------------------- C28
\* C28: a segment of the line of ForecastChart is styled as prediction (amber,
\* dashed) exactly when it starts at a record of type 'forecast', and as
\* history otherwise; when the data holds no record of type 'forecast', no
\* segment is styled as prediction.
C28_PredictionSegments ==
    forecastChart.drawn =>
        LET data == forecastChart.data
            styles == forecastChart.styles
        IN  /\ Len(styles) = Len(data) - 1 \/ (data = <<>> /\ styles = <<>>)
            /\ \A i \in 1..Len(styles) :
                  /\ styles[i] \in {PredictionStyle, HistoryStyle}
                  /\ styles[i] = PredictionStyle <=> data[i] = "forecast"
            /\ (\A i \in 1..Len(data) : data[i] # "forecast")
                  => \A i \in 1..Len(styles) : styles[i] # PredictionStyle

====
